---- MODULE Spec2Model ----
(***************************************************************************)
(* A model of raglineage: the lineage-tracked retrieval and versioning     *)
(* engine (RagLineage in raglineage/api.py and the modules it drives).     *)
(*                                                                         *)
(* Text is a sequence of one-character strings.  A JSON file written by    *)
(* the engine itself is one opaque character that names the file and a     *)
(* digest of what was written.  Timestamps are left out.  Record ids       *)
(* (uuid4 in the code) are fresh naturals, and a chunk id                  *)
(* "<id>_chunk_<i>" is the sequence <<id, i>>.  Scores are percentages.    *)
(***************************************************************************)
EXTENDS Integers, Sequences, FiniteSets, TLC

\* ------------------------------------------------------------------ bounds
\* How many dataset versions one dataset root may accumulate.
MaxVersions == 2
\* The largest k a query asks for.
MaxK == 2
\* The number of edits the user makes to the source files.
MaxEdits == 2
\* The number of edges of a graph handled on its own, and the depths asked of it.
MaxEdges == 2
MaxRecords == 3

MaxChunkSize == 2

MaxContentLen == 4

MaxLineage == 2

MaxDepth == 2

\* ------------------------------------------------------- program constants
\* The score given to a record reached by graph expansion (0.8).
NeighborScore == 80
\* FilterConfig's default min_score (0.0).
DefaultMinScore == 0

\* ------------------------------------------------------------ small helpers
Range(f) == {f[x] : x \in DOMAIN f}

Min2(a, b) == IF a <= b THEN a ELSE b

\* p in s: membership of a Python list.
InSeq(x, s) == \E i \in DOMAIN s : s[i] = x

\* s[:n] for n >= 0.
Take(s, n) == SubSeq(s, 1, Min2(n, Len(s)))

\* s[n:] for n >= 0.
Drop(s, n) == SubSeq(s, n + 1, Len(s))

\* ---------------------------------------------------------------- hashing
\* compute_content_hash: "sha256:" + digest; the digest is modelled as the
\* text itself (injective, as SHA-256 is taken to be).
compute_content_hash(content) == <<"sha256:">> \o content

\* compute_file_hash: digest of the file's bytes, with no prefix.
compute_file_hash(bytes) == <<"sha256">> \o bytes

\* --------------------------------------------------------------- text
WS == {" ", "\n"}

\* str.strip(): leading and trailing whitespace removed.
RECURSIVE LStrip(_)
LStrip(s) == IF s # <<>> /\ Head(s) \in WS THEN LStrip(Tail(s)) ELSE s

RECURSIVE RStrip(_)
RStrip(s) == IF s # <<>> /\ s[Len(s)] \in WS THEN RStrip(SubSeq(s, 1, Len(s) - 1)) ELSE s

Strip(s) == RStrip(LStrip(s))

\* str.replace("\n", " ") after str.replace(".\n", ". "): every newline
\* becomes a space (the first replacement is subsumed by the second).
ReplaceNewlines(s) == [i \in DOMAIN s |-> IF s[i] = "\n" THEN " " ELSE s[i]]

\* str.split(". "): the pieces between non-overlapping occurrences of the
\* two-character separator, scanning left to right.
RECURSIVE SplitDotSpace(_, _)
SplitDotSpace(s, cur) ==
    IF s = <<>> THEN <<cur>>
    ELSE IF Len(s) >= 2 /\ s[1] = "." /\ s[2] = " "
         THEN <<cur>> \o SplitDotSpace(Drop(s, 2), <<>>)
         ELSE SplitDotSpace(Tail(s), Append(cur, Head(s)))

\* " ".join(parts)
RECURSIVE JoinSpace(_)
JoinSpace(parts) ==
    IF parts = <<>> THEN <<>>
    ELSE IF Len(parts) = 1 THEN parts[1]
    ELSE parts[1] \o <<" ">> \o JoinSpace(Tail(parts))

\* sum(len(s) for s in parts)
RECURSIVE SumLen(_)
SumLen(parts) == IF parts = <<>> THEN 0 ELSE Len(Head(parts)) + SumLen(Tail(parts))

\* ------------------------------------------------------------- chunkers
\* SimpleChunker.chunk's while loop, from position start (0-based).
RECURSIVE SimpleChunkFrom(_, _, _, _)
SimpleChunkFrom(content, chunk_size, overlap, start) ==
    IF start >= Len(content) THEN <<>>
    ELSE LET end == start + chunk_size
             chunk == SubSeq(content, start + 1, Min2(end, Len(content)))
             nxt == end - overlap
         IN  IF nxt >= Len(content) THEN <<chunk>>
             ELSE <<chunk>> \o SimpleChunkFrom(content, chunk_size, overlap, nxt)

\* A chunker that leaves out the last window.
SimpleChunkWithoutLast(content, chunk_size, overlap) ==
    IF Len(content) <= chunk_size THEN <<content>>
    ELSE Take(SimpleChunkFrom(content, chunk_size, overlap, 0),
              Len(SimpleChunkFrom(content, chunk_size, overlap, 0)) - 1)

SimpleChunk(content, chunk_size, overlap) ==
    IF Len(content) <= chunk_size THEN <<content>>
    ELSE SimpleChunkFrom(content, chunk_size, overlap, 0)

\* Whether SimpleChunker.chunk returns: when the content is longer than
\* chunk_size and the overlap is not below chunk_size, start never moves
\* forward and the while loop appends chunks without end.
SimpleChunkReturns(content, chunk_size, overlap) ==
    Len(content) <= chunk_size \/ overlap < chunk_size

\* The sentences of SemanticChunker.chunk: split, strip, drop the empty
\* ones, and end each with a full stop.
StripAndStop(parts) == [i \in DOMAIN parts |-> Append(Strip(parts[i]), ".")]

Sentences(content) ==
    StripAndStop(SelectSeq(SplitDotSpace(ReplaceNewlines(content), <<>>),
                           LAMBDA p : Strip(p) # <<>>))

\* The trailing sentences of current_chunk kept as overlap: walking
\* backwards while the character budget allows.
RECURSIVE OverlapSentences(_, _, _, _)
OverlapSentences(current_chunk, overlap, acc, overlap_size) ==
    IF current_chunk = <<>> THEN acc
    ELSE LET s == current_chunk[Len(current_chunk)]
         IN  IF overlap_size + Len(s) <= overlap
             THEN OverlapSentences(SubSeq(current_chunk, 1, Len(current_chunk) - 1),
                                   overlap, <<s>> \o acc, overlap_size + Len(s))
             ELSE acc

\* SemanticChunker.chunk's for loop over the sentences.
RECURSIVE SemanticLoop(_, _, _, _, _, _)
SemanticLoop(sentences, chunk_size, overlap, chunks, current_chunk, current_size) ==
    IF sentences = <<>>
    THEN IF current_chunk # <<>> THEN Append(chunks, JoinSpace(current_chunk)) ELSE chunks
    ELSE IF current_size + Len(Head(sentences)) > chunk_size /\ current_chunk # <<>>
    THEN SemanticLoop(Tail(sentences), chunk_size, overlap,
                      Append(chunks, JoinSpace(current_chunk)),
                      Append(OverlapSentences(current_chunk, overlap, <<>>, 0), Head(sentences)),
                      SumLen(OverlapSentences(current_chunk, overlap, <<>>, 0))
                          + Len(Head(sentences)))
    ELSE SemanticLoop(Tail(sentences), chunk_size, overlap, chunks,
                      Append(current_chunk, Head(sentences)),
                      current_size + Len(Head(sentences)))

\* The same loop, keeping current_chunk as the list of sentences it is at
\* each chunks.append instead of the joined text.
RECURSIVE SemanticGroups(_, _, _, _, _, _)
SemanticGroups(sentences, chunk_size, overlap, groups, current_chunk, current_size) ==
    IF sentences = <<>>
    THEN IF current_chunk # <<>> THEN Append(groups, current_chunk) ELSE groups
    ELSE IF current_size + Len(Head(sentences)) > chunk_size /\ current_chunk # <<>>
    THEN SemanticGroups(Tail(sentences), chunk_size, overlap,
                        Append(groups, current_chunk),
                        Append(OverlapSentences(current_chunk, overlap, <<>>, 0), Head(sentences)),
                        SumLen(OverlapSentences(current_chunk, overlap, <<>>, 0))
                            + Len(Head(sentences)))
    ELSE SemanticGroups(Tail(sentences), chunk_size, overlap, groups,
                        Append(current_chunk, Head(sentences)),
                        current_size + Len(Head(sentences)))

\* return chunks if chunks else [content]
ChunksOrContent(chunks, content) == IF chunks # <<>> THEN chunks ELSE <<content>>

SemanticChunk(content, chunk_size, overlap) ==
    ChunksOrContent(SemanticLoop(Sentences(content), chunk_size, overlap, <<>>, <<>>, 0), content)

\* ------------------------------------------------------------ normalizer
\* re.sub(r"\s+", " ", content): each run of whitespace becomes one space.
RECURSIVE CollapseWS(_)
CollapseWS(s) ==
    IF s = <<>> THEN <<>>
    ELSE IF Head(s) \in WS
         THEN <<" ">> \o CollapseWS(LStrip(s))
         ELSE <<Head(s)>> \o CollapseWS(Tail(s))

\* The characters of the model's alphabet outside [\w\s.,!?;:-].
SpecialChars == {"{", "}", "#"}

\* str.lower() on the model's alphabet.
Lower(c) == CASE c = "A" -> "a" [] c = "B" -> "b" [] OTHER -> c

\* The aggressive part: re.sub(r"[^\w\s.,!?;:-]", "", content).lower()
LowerAll(s) == [i \in DOMAIN s |-> Lower(s[i])]

AggressiveText(content) == LowerAll(SelectSeq(content, LAMBDA c : c \notin SpecialChars))

NormalizeText(content, aggressive) ==
    IF aggressive THEN AggressiveText(Strip(CollapseWS(content)))
    ELSE Strip(CollapseWS(content))

\* ------------------------------------------------------ lineage records
NoMetadata == [chunk_index |-> -1, total_chunks |-> -1, normalization_aggressive |-> "unset"]

LineageNode(ln_id, content, source, dataset_version, transform_chain, content_hash, metadata) ==
    [ln_id |-> ln_id, content |-> content, source |-> source,
     dataset_version |-> dataset_version, transform_chain |-> transform_chain,
     content_hash |-> content_hash, metadata |-> metadata]

FileSource(uri) == [type |-> "file", uri |-> uri, row |-> -1]

TabularSource(uri, row) == [type |-> "tabular", uri |-> uri, row |-> row]

\* ------------------------------------------------------------ transforms
\* The records a chunker transform yields for the chunks of ln, named name.
ChunkRecords(ln, chunks, name) ==
    [i \in DOMAIN chunks |->
        LineageNode(Append(ln.ln_id, i - 1), chunks[i], ln.source, ln.dataset_version,
                    Append(ln.transform_chain, name),
                    compute_content_hash(chunks[i]),
                    [ln.metadata EXCEPT !.chunk_index = i - 1,
                                        !.total_chunks = Len(chunks)])]

\* SimpleChunkerTransform.transform
SimpleChunkerTransform(ln, chunk_size, overlap) ==
    ChunkRecords(ln, SimpleChunk(ln.content, chunk_size, overlap), "simple_chunk")

\* SemanticChunkerTransform.transform
SemanticChunkerTransform(ln, chunk_size, overlap) ==
    ChunkRecords(ln, SemanticChunk(ln.content, chunk_size, overlap), "semantic_chunk")

\* The chunker build and update construct for the configured strategy.
ChunkerTransform(ln, strategy, chunk_size, overlap) ==
    IF strategy = "semantic" THEN SemanticChunkerTransform(ln, chunk_size, overlap)
    ELSE SimpleChunkerTransform(ln, chunk_size, overlap)

NormalizeName(aggressive) == IF aggressive THEN "normalize_aggressive" ELSE "normalize"

\* A variant of the normalised record that keeps the hash of the record it
\* was made from.
NormalizedRecordKeepingHash(ln, content, aggressive) ==
    LineageNode(ln.ln_id, content, ln.source, ln.dataset_version,
                Append(ln.transform_chain, NormalizeName(aggressive)),
                ln.content_hash,
                [ln.metadata EXCEPT !.normalization_aggressive =
                                        IF aggressive THEN "true" ELSE "false"])

\* NormalizeTransform.transform
NormalizedRecord(ln, content, aggressive) ==
    LineageNode(ln.ln_id, content, ln.source, ln.dataset_version,
                Append(ln.transform_chain, NormalizeName(aggressive)),
                compute_content_hash(content),
                [ln.metadata EXCEPT !.normalization_aggressive =
                                        IF aggressive THEN "true" ELSE "false"])

NormalizeTransform(ln, aggressive) ==
    <<NormalizedRecord(ln, NormalizeText(ln.content, aggressive), aggressive)>>

\* A deduplicator that yields the record without remembering its hash.
DedupeTransformForgetting(ln, seen_hashes) ==
    [out |-> <<LineageNode(ln.ln_id, ln.content, ln.source, ln.dataset_version,
                           Append(ln.transform_chain, "deduplicate"),
                           ln.content_hash, ln.metadata)>>,
     seen |-> seen_hashes]

\* DedupeTransform.transform: the emitted records and the new seen_hashes.
DedupeTransform(ln, seen_hashes) ==
    IF ln.content_hash \in seen_hashes
    THEN [out |-> <<>>, seen |-> seen_hashes]
    ELSE [out |-> <<LineageNode(ln.ln_id, ln.content, ln.source, ln.dataset_version,
                                Append(ln.transform_chain, "deduplicate"),
                                ln.content_hash, ln.metadata)>>,
          seen |-> seen_hashes \cup {ln.content_hash}]

\* flat-map of a stateless transform over current_nodes
RECURSIVE FlatMapChunk(_, _)
FlatMapChunk(nodes, cfg) ==
    IF nodes = <<>> THEN <<>>
    ELSE ChunkerTransform(Head(nodes), cfg.chunking_strategy, cfg.chunk_size, cfg.chunk_overlap)
         \o FlatMapChunk(Tail(nodes), cfg)

RECURSIVE FlatMapNormalize(_, _)
FlatMapNormalize(nodes, cfg) ==
    IF nodes = <<>> THEN <<>>
    ELSE NormalizeTransform(Head(nodes), cfg.normalize_aggressive)
         \o FlatMapNormalize(Tail(nodes), cfg)

PrependOut(out, rest) == [out |-> out \o rest.out, seen |-> rest.seen]

\* the dedupe stage over current_nodes, threading seen_hashes
RECURSIVE FlatMapDedupe(_, _)
FlatMapDedupe(nodes, seen_hashes) ==
    IF nodes = <<>> THEN [out |-> <<>>, seen |-> seen_hashes]
    ELSE PrependOut(DedupeTransform(Head(nodes), seen_hashes).out,
                    FlatMapDedupe(Tail(nodes), DedupeTransform(Head(nodes), seen_hashes).seen))

\* The normalize stage, when enabled.
NormalizeStage(nodes, cfg) == IF cfg.enable_normalize THEN FlatMapNormalize(nodes, cfg) ELSE nodes

\* The dedupe stage, when enabled.
DedupeStage(nodes, cfg, seen_hashes) ==
    IF cfg.enable_dedupe THEN FlatMapDedupe(nodes, seen_hashes)
    ELSE [out |-> nodes, seen |-> seen_hashes]

\* The transform loop of build/update for the ingested records lns:
\* for transform in [chunker, normalize, dedupe], skipping disabled stages.
RECURSIVE RunPipeline(_, _, _)
RECURSIVE RunRest(_, _, _)
RunRest(deduped, lns, cfg) == deduped.out \o RunPipeline(lns, cfg, deduped.seen)

RunPipeline(lns, cfg, seen_hashes) ==
    IF lns = <<>> THEN <<>>
    ELSE RunRest(DedupeStage(NormalizeStage(FlatMapChunk(<<Head(lns)>>, cfg), cfg),
                             cfg, seen_hashes),
                 Tail(lns), cfg)

\* ------------------------------------------------------- the dataset root
PolicyTxt == "policy.txt"
ProductsCsv == "products.csv"
\* The user's source files that may exist under the root.
UserPaths == {PolicyTxt, ProductsCsv}

\* The engine's own files, in <root>/.raglineage (storage_dir).
ManifestPath == ".raglineage/manifest.json"
GraphPath == ".raglineage/graph.json"
IndexPath == ".raglineage/faiss_index"
MappingPath == ".raglineage/faiss_index_mapping.json"

\* The order in which Path.rglob("*") yields the files (the code takes
\* whatever order the file system gives; one order is fixed here).
ScanOrder == <<IndexPath, MappingPath, GraphPath, ManifestPath, PolicyTxt, ProductsCsv>>

\* Path.suffix.lower()
Suffix(path) ==
    CASE path = PolicyTxt -> ".txt"
      [] path = ProductsCsv -> ".csv"
      [] path \in {ManifestPath, GraphPath, MappingPath} -> ".json"
      [] OTHER -> ""

TEXT_EXTENSIONS == {".txt", ".md", ".markdown", ".rst", ".text"}

TABULAR_EXTENSIONS == {".csv", ".json", ".parquet"}

\* What the user may write into the text file and into the CSV file.
TextContents ==
    { <<"a", "b", ".", " ", "c", "d", ".">>,
      <<"a", "b", ".", " ", "c", "e", ".">> }

CsvContents ==
    { <<"h", "\n", "x", "\n", "y">>,
      <<"h", "\n", "x", "\n", "x">> }

ContentsOf(path) == IF path = PolicyTxt THEN TextContents ELSE CsvContents

\* What stands for the bytes of a file that cannot be opened for reading.
Unreadable == <<"unreadable">>

\* Whether JSON data has the shape of a DatasetManifest.
IsManifest(data) == DOMAIN data = {"current_version", "versions"}

\* JSON data in manifest.json that is not a manifest: the required fields
\* are missing.
InvalidManifest == [metadata |-> "none"]

\* The bytes save_json writes, as one opaque character naming the file and
\* a digest of the data.
ManifestBytes(manifest) ==
    IF IsManifest(manifest) THEN <<ToString(<<"manifest.json", Len(manifest.versions)>>)>>
    ELSE <<ToString(<<"manifest.json", manifest>>)>>

GraphBytes(snapshot) == <<ToString(<<"graph.json", DOMAIN snapshot.nodes, snapshot.edges>>)>>

MappingBytes(st) == <<ToString(<<"faiss_index_mapping.json", st.ids>>)>>

IndexBytes(st) == <<ToString(<<"faiss_index", Len(st.ids)>>)>>

\* A view of the file system: the user's files and the engine's files
\* (each engine file as a sequence of length 0 or 1: absent or present).
FSView(userFiles, man, gr, idx) == [files |-> userFiles, manifest |-> man, graph |-> gr, index |-> idx]

\* Path.exists()
Exists(fs, path) ==
    CASE path \in UserPaths -> path \in DOMAIN fs.files
      [] path = ManifestPath -> fs.manifest # <<>>
      [] path = GraphPath -> fs.graph # <<>>
      [] OTHER -> fs.index # <<>>

\* The bytes of an existing file.
ReadBytes(fs, path) ==
    CASE path \in UserPaths -> fs.files[path]
      [] path = ManifestPath -> ManifestBytes(fs.manifest[1])
      [] path = GraphPath -> GraphBytes(fs.graph[1])
      [] path = MappingPath -> MappingBytes(fs.index[1])
      [] OTHER -> IndexBytes(fs.index[1])

\* source.rglob("*") filtered by is_file(): the files under the root.
ScanFiles(fs) == SelectSeq(ScanOrder, LAMBDA p : Exists(fs, p))

\* -------------------------------------------------------------- ingestion
\* str.split("\n") as csv.reader sees it: the lines, empty ones skipped.
RECURSIVE SplitLines(_, _)
SplitLines(s, cur) ==
    IF s = <<>> THEN (IF cur = <<>> THEN <<>> ELSE <<cur>>)
    ELSE IF Head(s) = "\n"
         THEN (IF cur = <<>> THEN <<>> ELSE <<cur>>) \o SplitLines(Tail(s), <<>>)
         ELSE SplitLines(Tail(s), Append(cur, Head(s)))

\* json.dumps(row) of a csv.DictReader row: built from the header and the row.
JsonDumpsRow(header, row) == <<"{">> \o header \o <<":">> \o row \o <<"}">>

\* json.dumps(json.load(f)) of a JSON file holding one object.
JsonDumpsObject(bytes) == <<ToString(<<"json.dumps", bytes[1]>>)>>

\* FileIngestor.ingest: one record for a text file that is not blank.
FileIngest(path, bytes, dataset_version, first_id) ==
    IF Strip(bytes) = <<>> THEN <<>>
    ELSE <<LineageNode(<<first_id>>, bytes, FileSource(path), dataset_version,
                       <<"file_read">>, compute_content_hash(bytes), NoMetadata)>>

\* TabularIngestor._ingest_csv: one record per data row.
CsvIngest(path, bytes, dataset_version, first_id) ==
    LET lines == SplitLines(bytes, <<>>)
        rows == IF lines = <<>> THEN <<>> ELSE Tail(lines)
    IN  [i \in DOMAIN rows |->
            LET content == JsonDumpsRow(lines[1], rows[i])
            IN  LineageNode(<<first_id + i - 1>>, content, TabularSource(path, i - 1),
                            dataset_version, <<"csv_parse">>,
                            compute_content_hash(content), NoMetadata)]

\* TabularIngestor._ingest_json on a file holding a single object.
JsonIngest(path, bytes, dataset_version, first_id) ==
    LET content == JsonDumpsObject(bytes)
    IN  <<LineageNode(<<first_id>>, content, TabularSource(path, 0), dataset_version,
                      <<"json_parse">>, compute_content_hash(content), NoMetadata)>>

\* AutoIngestor.ingest: the tabular ingestor first, then the file ingestor;
\* both catch the error of a file they cannot read and yield nothing.
AutoIngest(fs, path, dataset_version, first_id) ==
    IF ~Exists(fs, path) THEN <<>>
    ELSE IF ReadBytes(fs, path) = Unreadable THEN <<>>
    ELSE IF Suffix(path) \in TABULAR_EXTENSIONS
    THEN CASE Suffix(path) = ".csv" -> CsvIngest(path, ReadBytes(fs, path), dataset_version, first_id)
           [] Suffix(path) = ".json" -> JsonIngest(path, ReadBytes(fs, path), dataset_version, first_id)
           [] OTHER -> <<>>
    ELSE IF Suffix(path) \in TEXT_EXTENSIONS
    THEN FileIngest(path, ReadBytes(fs, path), dataset_version, first_id)
    ELSE <<>>

\* The ingest loop of build/update over the given paths: every record of
\* every file, with fresh ids from first_id on.
RECURSIVE IngestAll(_, _, _, _)
IngestAll(fs, paths, dataset_version, first_id) ==
    IF paths = <<>> THEN <<>>
    ELSE LET lns == AutoIngest(fs, Head(paths), dataset_version, first_id)
         IN  lns \o IngestAll(fs, Tail(paths), dataset_version, first_id + Len(lns))

\* --------------------------------------------- dataset versions, manifest
\* DatasetManifest.current_version when no version was added (None).
NoVersion == "None"

FileEntry(path, hash) == [path |-> path, hash |-> hash]

DatasetVersion(version, files) == [version |-> version, files |-> files]

\* DatasetManifest(dataset_name=...): no version yet.
NewManifest == [current_version |-> NoVersion, versions |-> <<>>]

\* A variant of add_version that keeps only the new version.
add_version_replacing(manifest, version_obj) ==
    [manifest EXCEPT !.versions = <<version_obj>>,
                     !.current_version = version_obj.version]

\* DatasetManifest.add_version
add_version(manifest, version_obj) ==
    [manifest EXCEPT !.versions = Append(manifest.versions, version_obj),
                     !.current_version = version_obj.version]

\* DatasetManifest.get_version: the first version with the tag, as a
\* sequence of length 0 (None) or 1.
RECURSIVE FirstWithTag(_, _)
FirstWithTag(versions, tag) ==
    IF versions = <<>> THEN <<>>
    ELSE IF Head(versions).version = tag THEN <<Head(versions)>>
    ELSE FirstWithTag(Tail(versions), tag)

get_version(manifest, tag) == FirstWithTag(manifest.versions, tag)

\* The file entries create_version builds: one per listed file that exists.
RECURSIVE FileEntries(_, _)
FileEntries(fs, paths) ==
    IF paths = <<>> THEN <<>>
    ELSE (IF Exists(fs, Head(paths))
          THEN <<FileEntry(Head(paths), compute_file_hash(ReadBytes(fs, Head(paths))))>>
          ELSE <<>>) \o FileEntries(fs, Tail(paths))

\* A validation that takes data of any shape for an empty manifest.
model_validate_lenient(data) == IF IsManifest(data) THEN <<data>> ELSE <<NewManifest>>

\* DatasetManifest.model_validate inside load_manifest's try block: the
\* manifest, or nothing (<<>>) when the validation error is caught.
model_validate(data) == IF IsManifest(data) THEN <<data>> ELSE <<>>

\* VersionStore.load_manifest: the cached manifest, else the one on disk
\* when there is one and it validates.
load_manifest(cached, onDisk) ==
    IF cached # <<>> THEN cached
    ELSE IF onDisk = <<>> THEN <<>>
    ELSE model_validate(onDisk[1])

\* VersionStore.get_or_create_manifest
get_or_create_manifest(cached, onDisk) ==
    IF load_manifest(cached, onDisk) # <<>> THEN load_manifest(cached, onDisk)[1]
    ELSE NewManifest

\* The error create_version raises, "" for none: compute_file_hash opens
\* every listed file that exists.
CreateVersionError(fs, paths) ==
    IF \E i \in DOMAIN paths : Exists(fs, paths[i]) /\ ReadBytes(fs, paths[i]) = Unreadable
    THEN "PermissionError" ELSE ""

\* VersionStore.create_version: the new version and the manifest saved.
create_version(fs, cached, tag, paths) ==
    LET version_obj == DatasetVersion(tag, FileEntries(fs, paths))
    IN  [version_obj |-> version_obj,
         manifest |-> add_version(get_or_create_manifest(cached, fs.manifest), version_obj)]

\* ------------------------------------------------------------------ diff
\* The keys of {f.path: f.hash for f in files}, in insertion order.
RECURSIVE DictKeys(_, _)
DictKeys(files, seen) ==
    IF files = <<>> THEN <<>>
    ELSE IF Head(files).path \in seen THEN DictKeys(Tail(files), seen)
    ELSE <<Head(files).path>> \o DictKeys(Tail(files), seen \cup {Head(files).path})

\* The value of that dict at path: the hash of the last entry with the path.
RECURSIVE DictGet(_, _)
DictGet(files, path) ==
    IF files[Len(files)].path = path THEN files[Len(files)].hash
    ELSE DictGet(SubSeq(files, 1, Len(files) - 1), path)

VersionDiff(version_from, version_to, added, removed, modified, unchanged) ==
    [version_from |-> version_from, version_to |-> version_to,
     added_files |-> added, removed_files |-> removed,
     modified_files |-> modified, unchanged_files |-> unchanged]

\* The four loops of compute_diff over the two path -> hash dicts, whose
\* keys are keys_from and keys_to.
CompareFiles(version_from, version_to, keys_from, keys_to) ==
    VersionDiff(version_from.version, version_to.version,
        SelectSeq(keys_to, LAMBDA p : ~InSeq(p, keys_from)),
        SelectSeq(keys_from, LAMBDA p : ~InSeq(p, keys_to)),
        SelectSeq(keys_from, LAMBDA p : InSeq(p, keys_to)
            /\ DictGet(version_from.files, p) # DictGet(version_to.files, p)),
        SelectSeq(keys_from, LAMBDA p : InSeq(p, keys_to)
            /\ DictGet(version_from.files, p) = DictGet(version_to.files, p)))

\* A variant of compute_diff that compares the paths only.
compute_diff_by_path(version_from, version_to) ==
    VersionDiff(version_from.version, version_to.version,
        SelectSeq(DictKeys(version_to.files, {}),
                  LAMBDA p : ~InSeq(p, DictKeys(version_from.files, {}))),
        SelectSeq(DictKeys(version_from.files, {}),
                  LAMBDA p : ~InSeq(p, DictKeys(version_to.files, {}))),
        <<>>,
        SelectSeq(DictKeys(version_from.files, {}),
                  LAMBDA p : InSeq(p, DictKeys(version_to.files, {}))))

compute_diff(version_from, version_to) ==
    CompareFiles(version_from, version_to,
                 DictKeys(version_from.files, {}), DictKeys(version_to.files, {}))

\* A variant of has_changes that counts the unchanged files too.
has_files(diff) ==
    Len(diff.added_files) > 0 \/ Len(diff.removed_files) > 0
    \/ Len(diff.modified_files) > 0 \/ Len(diff.unchanged_files) > 0

\* VersionDiff.has_changes
has_changes(diff) ==
    Len(diff.added_files) > 0 \/ Len(diff.removed_files) > 0 \/ Len(diff.modified_files) > 0

\* VersionDiff.get_changed_files
get_changed_files(diff) == diff.added_files \o diff.removed_files \o diff.modified_files

\* The result of a diff that was not made.
NoDiff == VersionDiff(NoVersion, NoVersion, <<>>, <<>>, <<>>, <<>>)

\* ---------------------------------------------------------- lineage graph
\* LineageGraph(): nodes map an id to its record, edges map (source, target)
\* to the edge type.
EmptyGraph == [nodes |-> <<>>, edges |-> <<>>]

\* A variant of add_node that keeps the record a node already has.
add_node_keeping(g, ln) == [g EXCEPT !.nodes = g.nodes @@ (ln.ln_id :> ln)]

\* LineageGraph.add_node
add_node(g, ln) == [g EXCEPT !.nodes = (ln.ln_id :> ln) @@ g.nodes]

\* LineageGraph.get_node: the record, or None (<<>>).
get_node(g, ln_id) == IF ln_id \in DOMAIN g.nodes THEN <<g.nodes[ln_id]>> ELSE <<>>

\* LineageGraph.__len__
graph_len(g) == Cardinality(DOMAIN g.nodes)

\* What add_edge raises: ValueError when an endpoint is not a node.
add_edge_error(g, source_id, target_id) ==
    IF source_id \notin DOMAIN g.nodes \/ target_id \notin DOMAIN g.nodes
    THEN "ValueError" ELSE ""

\* A variant of add_edge that does not look at the endpoints.
add_edge_unchecked(g, source_id, target_id, edge_type) ==
    [g EXCEPT !.edges = (<<source_id, target_id>> :> edge_type) @@ g.edges]

\* LineageGraph.add_edge: the graph after the call; it is the graph before
\* the call when the call raised.
add_edge(g, source_id, target_id, edge_type) ==
    IF add_edge_error(g, source_id, target_id) # "" THEN g
    ELSE [g EXCEPT !.edges = (<<source_id, target_id>> :> edge_type) @@ g.edges]

\* A variant of Adjacent that follows the edges forwards only.
Successors(g, node_id) == {e[2] : e \in {x \in DOMAIN g.edges : x[1] = node_id}}

\* graph.successors / graph.predecessors of a node
Adjacent(g, node_id) ==
    {e[2] : e \in {x \in DOMAIN g.edges : x[1] = node_id}}
    \cup {e[1] : e \in {x \in DOMAIN g.edges : x[2] = node_id}}

\* The breadth-first loop of LineageGraph.neighbors.
RECURSIVE NeighborsLoop(_, _, _, _, _)
NeighborsLoop(g, depth, current_level, visited, neighbors_set) ==
    IF depth = 0 \/ current_level = {} THEN neighbors_set
    ELSE LET next_level == (UNION {Adjacent(g, n) : n \in current_level}) \ visited
         IN  NeighborsLoop(g, depth - 1, next_level, visited \cup next_level,
                           neighbors_set \cup next_level)

\* LineageGraph.neighbors
neighbors(g, ln_id, depth) ==
    IF ln_id \notin DOMAIN g.nodes THEN {}
    ELSE NeighborsLoop(g, depth, {ln_id}, {ln_id}, {})

\* A variant of export_json that leaves the edges out.
export_json_nodes_only(g) ==
    [nodes |-> [id \in DOMAIN g.nodes |->
                    [ln_id |-> g.nodes[id].ln_id,
                     content_hash |-> g.nodes[id].content_hash,
                     dataset_version |-> g.nodes[id].dataset_version]],
     edges |-> {}]

\* LineageGraph.export_json; the edge list is kept as a set.
export_json(g) ==
    [nodes |-> [id \in DOMAIN g.nodes |->
                    [ln_id |-> g.nodes[id].ln_id,
                     content_hash |-> g.nodes[id].content_hash,
                     dataset_version |-> g.nodes[id].dataset_version]],
     edges |-> {[source |-> e[1], target |-> e[2], edge_type |-> g.edges[e]] :
                    e \in DOMAIN g.edges}]

\* LineageGraph.load_json: the graph is cleared; a node is kept when the
\* registry has its record, an edge when both its endpoints were kept.
load_json(data, node_registry) ==
    LET kept == DOMAIN data.nodes \cap DOMAIN node_registry
        edges == {e \in data.edges : e.source \in kept /\ e.target \in kept}
    IN  [nodes |-> [id \in kept |-> node_registry[id]],
         edges |-> [p \in {<<e.source, e.target>> : e \in edges} |->
                       (CHOOSE e \in edges : e.source = p[1] /\ e.target = p[2]).edge_type]]

\* ------------------------------------------------- embedding, vector store
\* The embedding provider, as a one-dimensional embedding of the text.
EmbedRange == 3

Embed(text) == Len(text) % EmbedRange

\* FAISSStore(dimension): no vector yet.  ids[i] is the record id mapped to
\* index i-1 and vecs[i] is its vector.
EmptyStore == [ids |-> <<>>, vecs |-> <<>>]

\* FAISSStore.add: a new id gets the next index; for an id already mapped
\* the index is left as it is.
StoreAdd(st, ln_id, embedding) ==
    IF InSeq(ln_id, st.ids) THEN st
    ELSE [ids |-> Append(st.ids, ln_id), vecs |-> Append(st.vecs, embedding)]

\* The squared L2 distance of IndexFlatL2.
L2(a, b) == (a - b) * (a - b)

\* score = 1.0 / (1.0 + dist), as a percentage
Score(dist) == 100 \div (1 + dist)

\* The number of vectors placed before index i in the search order: the
\* nearer ones, and of the equally near ones those added earlier.
SearchRank(st, q, i) ==
    Cardinality({j \in DOMAIN st.ids :
        \/ L2(st.vecs[j], q) < L2(st.vecs[i], q)
        \/ (L2(st.vecs[j], q) = L2(st.vecs[i], q) /\ j < i)})

\* FAISSStore.search: the min(k, ntotal) nearest, nearest first.
StoreSearch(st, q, k) ==
    LET n == Min2(k, Len(st.ids))
    IN  [r \in 1..n |->
            LET i == CHOOSE i \in DOMAIN st.ids : SearchRank(st, q, i) = r - 1
            IN  <<st.ids[i], Score(L2(st.vecs[i], q))>>]

\* ---------------------------------------------------------------- filters
\* A filter field that is not set (None).
Unset == "None"

FilterConfig(dataset_version, source_uri, source_type, min_score) ==
    [dataset_version |-> dataset_version, source_uri |-> source_uri,
     source_type |-> source_type, min_score |-> min_score]

\* A variant of the filter round that does not look at the score.
FilterKeepsAnyScore(ln_id, score, nodes, filters) ==
    /\ ln_id \in DOMAIN nodes
    /\ filters.dataset_version # Unset
            => nodes[ln_id].dataset_version = filters.dataset_version
    /\ filters.source_uri # Unset => nodes[ln_id].source.uri = filters.source_uri
    /\ filters.source_type # Unset => nodes[ln_id].source.type = filters.source_type

\* One round of apply_filters's loop: whether (ln_id, score) is kept.
FilterKeeps(ln_id, score, nodes, filters) ==
    IF score < filters.min_score THEN FALSE
    ELSE IF ln_id \notin DOMAIN nodes THEN FALSE
    ELSE IF filters.dataset_version # Unset
            /\ nodes[ln_id].dataset_version # filters.dataset_version THEN FALSE
    ELSE IF filters.source_uri # Unset
            /\ nodes[ln_id].source.uri # filters.source_uri THEN FALSE
    ELSE IF filters.source_type # Unset
            /\ nodes[ln_id].source.type # filters.source_type THEN FALSE
    ELSE TRUE

RECURSIVE apply_filters(_, _, _)
apply_filters(results, nodes, filters) ==
    IF results = <<>> THEN <<>>
    ELSE (IF FilterKeeps(Head(results)[1], Head(results)[2], nodes, filters)
          THEN <<Head(results)>> ELSE <<>>)
         \o apply_filters(Tail(results), nodes, filters)

\* -------------------------------------------------------------- retriever
\* list.sort(key=score, reverse=True): a stable sort, highest score first.
RECURSIVE InsertByScore(_, _)
InsertByScore(sorted, x) ==
    IF sorted = <<>> THEN <<x>>
    ELSE IF Head(sorted)[2] >= x[2] THEN <<Head(sorted)>> \o InsertByScore(Tail(sorted), x)
    ELSE <<x>> \o sorted

\* A variant of the sort that leaves the list as it is.
KeepOrder(results) == results

RECURSIVE SortByScore(_)
SortByScore(results) ==
    IF results = <<>> THEN <<>>
    ELSE InsertByScore(SortByScore(SubSeq(results, 1, Len(results) - 1)),
                       results[Len(results)])

\* The set built by the graph expansion: the direct results and, for each
\* of them, its graph neighbours that are in the registry, at the fixed score.
ExpandedResults(results, g, node_registry, graph_depth) ==
    Range(results)
    \cup {<<n, NeighborScore>> :
            n \in (UNION {neighbors(g, results[i][1], graph_depth) : i \in DOMAIN results})
                  \cap DOMAIN node_registry}

\* list(expanded_results)[:k]: a set has no order the program controls, so
\* every choice of min(k, size) distinct elements in every order is possible.
ListOfSetPrefixes(S, k) ==
    {p \in [1..Min2(k, Cardinality(S)) -> S] : \A i, j \in DOMAIN p : i # j => p[i] # p[j]}

\* The results after filtering and [:k], before the graph expansion.
DirectResults(candidates, node_registry, k, filtered, filters) ==
    Take(IF filtered THEN apply_filters(candidates, node_registry, filters) ELSE candidates, k)

\* The lists results may be bound to after the graph expansion step.
AfterExpansion(direct, g, node_registry, k, graph_depth) ==
    IF graph_depth > 0
    THEN ListOfSetPrefixes(ExpandedResults(direct, g, node_registry, graph_depth), k)
    ELSE {direct}

\* Retriever.retrieve, from the candidates the vector search returned: the
\* set of lists it may return.
RetrieveFrom(candidates, g, node_registry, k, filtered, filters, graph_depth) ==
    {Take(SortByScore(r), k) :
        r \in AfterExpansion(DirectResults(candidates, node_registry, k, filtered, filters),
                             g, node_registry, k, graph_depth)}

\* ------------------------------------------------------------- the engine
\* RagLineageConfig: the settings an engine is constructed with.
Config(strategy, chunk_size, chunk_overlap, dedupe, normalize, aggressive, graph_depth) ==
    [chunking_strategy |-> strategy, chunk_size |-> chunk_size, chunk_overlap |-> chunk_overlap,
     enable_dedupe |-> dedupe, enable_normalize |-> normalize,
     normalize_aggressive |-> aggressive, graph_depth |-> graph_depth,
     store_backend |-> "faiss", embed_backend |-> "local"]

\* The same configuration with the given backend names.
WithBackends(cfg, store_backend, embed_backend) ==
    [cfg EXCEPT !.store_backend = store_backend, !.embed_backend = embed_backend]

\* The configurations of engines whose backend names are also chosen by
\* the caller: "annoy" and "remote" name no backend.
BackendConfigs ==
    { Config("simple", 6, 2, TRUE, TRUE, FALSE, 0),
      WithBackends(Config("simple", 6, 2, TRUE, TRUE, FALSE, 0), "annoy", "local"),
      WithBackends(Config("simple", 6, 2, TRUE, TRUE, FALSE, 0), "faiss", "remote") }

\* RagLineage._initialize_embedder: the error it raises, "" for none.
InitializeEmbedderError(cfg) ==
    IF cfg.embed_backend \in {"local", "openai"} THEN "" ELSE "ValueError"

\* The configurations an engine is constructed with in this model.
Configs ==
    { Config("semantic", 6, 2, TRUE, TRUE, FALSE, 1),
      Config("simple", 6, 2, TRUE, TRUE, FALSE, 0) }

\* The version tags the caller passes to build and update.
Tags == {"v1.0", "v1.1"}

\* The questions asked.
Questions == { <<"a">>, <<"a", "b", "c">> }

\* The filter configurations passed to query.
FilterConfigs ==
    { FilterConfig(Unset, Unset, Unset, 90),
      FilterConfig("v1.1", Unset, Unset, DefaultMinScore),
      FilterConfig(Unset, ProductsCsv, "tabular", 50) }

VARIABLES
    files,          \* the user's files under the root: path -> bytes
    disk_manifest,  \* .raglineage/manifest.json, absent (<<>>) or <<manifest>>
    disk_graph,     \* .raglineage/graph.json, absent or <<snapshot>>
    disk_index,     \* .raglineage/faiss_index and its mapping, absent or <<store>>
    config,         \* RagLineage.config
    vs_manifest,    \* VersionStore._manifest, None (<<>>) or <<manifest>>
    node_registry,  \* RagLineage.node_registry: id -> record
    graph,          \* RagLineage.graph
    store,          \* RagLineage.store, None (<<>>) or <<store>>
    retriever,      \* whether RagLineage.retriever is set
    next_id,        \* the next fresh record id
    edits,          \* the number of edits made to the source files
    chunker,        \* a SimpleChunker used on its own, none (<<>>) or <<chunker>>
    threads,        \* the callers of query at work: where each is in query, what it
                    \* asked and what it got
    auditor,        \* RagLineage.auditor: None (<<>>) or <<current_version>>, the
                    \* version the Auditor was constructed with
    deduper,        \* a DedupeTransform used on its own: its seen_hashes, and the
                    \* records passed to it and yielded by it since it was
                    \* constructed or last reset
    ret             \* the last call and what it returned

vars == <<files, disk_manifest, disk_graph, disk_index, config, vs_manifest,
          node_registry, graph, store, retriever, next_id, edits, chunker, deduper, threads, auditor,
          ret>>

\* DedupeTransform(): nothing seen, nothing passed through yet.
NewDedupe == [seen_hashes |-> {}, input |-> <<>>, output |-> <<>>]

\* The threads that call query on one engine.
Threads == {1, 2}

\* A thread that is not in query.
Idle == [pc |-> "idle", question |-> <<>>, k |-> 0, results |-> <<>>, error |-> ""]

\* No call made yet.
NoRet ==
    [op |-> "none", error |-> "", version |-> NoVersion, changed_only |-> FALSE,
     k |-> 0, filtered |-> FALSE, filters |-> FilterConfig(Unset, Unset, Unset, DefaultMinScore),
     graph_depth |-> 0, candidates |-> <<>>, after_filters |-> <<>>, direct |-> <<>>,
     results |-> <<>>,
     lineage |-> <<>>, diff |-> NoDiff,
     ln_id |-> <<>>, target_id |-> <<>>, edge_type |-> "", node |-> <<>>,
     depth |-> 0, neighbors |-> <<>>, ids |-> {},
     chunk_size |-> 0, overlap |-> 0, content |-> <<>>, chunks |-> <<>>,
     emitted |-> <<>>, current_version |-> <<>>, status |-> "", risk_flags |-> <<>>,
     manifest |-> <<>>, version_obj |-> <<>>]

\* The file system as the running engine sees it.
CurrentFS == FSView(files, disk_manifest, disk_graph, disk_index)

\* RagLineage._initialize_store: the store in use, else a new one loaded
\* from the index on disk when there is one.
\* RagLineage._initialize_store: the error it raises, "" for none; a store
\* already in place is returned as it is.
InitializeStoreError ==
    IF store # <<>> THEN ""
    ELSE IF InitializeEmbedderError(config) # "" THEN InitializeEmbedderError(config)
    ELSE IF config.store_backend = "faiss" THEN ""
    ELSE "ValueError"

InitializeStore == IF store # <<>> THEN store[1] ELSE IF disk_index # <<>> THEN disk_index[1] ELSE EmptyStore

\* RagLineage._load_graph: the graph after reloading the snapshot on disk.
LoadGraph == IF disk_graph # <<>> THEN load_json(disk_graph[1], node_registry) ELSE graph

\* The state of registry, graph and store while records are being added.
Holding(reg, g, st) == [registry |-> reg, graph |-> g, store |-> st]

\* The loop of build over all_nodes: registry, graph and store get each
\* record, and a chunk is linked to the chunk before it when the registry
\* has that one.
RECURSIVE BuildAddNodes(_, _)
BuildAddNodes(h, nodes) ==
    IF nodes = <<>> THEN h
    ELSE LET node == Head(nodes)
             reg1 == (node.ln_id :> node) @@ h.registry
             g1 == add_node(h.graph, node)
             st1 == StoreAdd(h.store, node.ln_id, Embed(node.content))
             chunk_idx == node.ln_id[Len(node.ln_id)]
             prev_chunk_id == [node.ln_id EXCEPT ![Len(node.ln_id)] = chunk_idx - 1]
             g2 == IF Len(node.ln_id) > 1 /\ chunk_idx > 0 /\ prev_chunk_id \in DOMAIN reg1
                   THEN add_edge(g1, prev_chunk_id, node.ln_id, "adjacent")
                   ELSE g1
         IN  BuildAddNodes(Holding(reg1, g2, st1), Tail(nodes))

\* The loop of update over new_nodes: registry, graph and store get each record.
RECURSIVE UpdateAddNodes(_, _)
UpdateAddNodes(h, nodes) ==
    IF nodes = <<>> THEN h
    ELSE LET node == Head(nodes)
         IN  UpdateAddNodes(Holding((node.ln_id :> node) @@ h.registry,
                                    add_node(h.graph, node),
                                    StoreAdd(h.store, node.ln_id, Embed(node.content))),
                            Tail(nodes))

\* What a call leaves behind: the manifest saved by create_version, the
\* registry, graph and store in h, the index and graph files (written when
\* saved), and the ids used up by the n ingested records.
Outcome(manifest, h, saved, n) ==
    [manifest |-> manifest, registry |-> h.registry, graph |-> h.graph, store |-> h.store,
     disk_index |-> IF saved THEN <<h.store>> ELSE disk_index,
     disk_graph |-> IF saved THEN <<export_json(h.graph)>> ELSE disk_graph,
     next_id |-> next_id + n]

\* build from "Add to graph and store" on, for the ingested records lns.
BuildIngested(manifest, g, lns) ==
    Outcome(manifest,
            BuildAddNodes(Holding(node_registry, g, InitializeStore),
                          RunPipeline(lns, config, {})),
            TRUE, Len(lns))

\* build from "Ingest and transform" on; the manifest is on disk by then.
BuildVersioned(version, g, source_files, manifest) ==
    BuildIngested(manifest, g,
                  IngestAll(FSView(files, <<manifest>>, disk_graph, disk_index),
                            source_files, version, next_id))

\* build from "Create version" on, for the files the scan found.
BuildScanned(version, g, source_files) ==
    BuildVersioned(version, g, source_files,
                   create_version(CurrentFS, vs_manifest, version, source_files).manifest)

\* What RagLineage.build(version) leaves behind, started with graph g.
BuildOutcome(version, g) == BuildScanned(version, g, ScanFiles(CurrentFS))

\* The files update processes.
ChangedFiles(changed_only, version_from, version_to) ==
    IF changed_only THEN get_changed_files(compute_diff(version_from, version_to))
    ELSE [i \in DOMAIN version_to.files |-> version_to.files[i].path]

\* update from "Add new nodes" on.
UpdateProcessed(manifest, new_nodes, n) ==
    Outcome(manifest,
            UpdateAddNodes(Holding(node_registry, LoadGraph, InitializeStore), new_nodes),
            new_nodes # <<>>, n)

\* update's transform loop over the ingested records lns.
UpdateIngested(manifest, lns) == UpdateProcessed(manifest, RunPipeline(lns, config, {}), Len(lns))

\* update from the choice of the files to process on; cv is what
\* create_version returned and saved.
UpdateVersioned(version, changed_only, version_from, cv) ==
    UpdateIngested(cv.manifest,
                   IngestAll(FSView(files, <<cv.manifest>>, disk_graph, disk_index),
                             ChangedFiles(changed_only, version_from, cv.version_obj),
                             version, next_id))

\* What RagLineage.update(version, changed_only) leaves behind when the
\* manifest has a current version.
UpdateOutcome(version, changed_only, manifest0) ==
    UpdateVersioned(version, changed_only,
                    get_version(manifest0, manifest0.current_version)[1],
                    create_version(CurrentFS, vs_manifest, version, ScanFiles(CurrentFS)))

\* RagLineage.update with its two fall-backs to a full build; loaded is
\* the manifest load_manifest returned.
UpdateResult(version, changed_only, loaded) ==
    IF loaded = <<>> \/ loaded[1].current_version = NoVersion
    THEN BuildOutcome(version, graph)
    ELSE IF get_version(loaded[1], loaded[1].current_version) = <<>>
    THEN BuildOutcome(version, LoadGraph)
    ELSE UpdateOutcome(version, changed_only, loaded[1])

\* The number of versions recorded for the dataset root so far.
CountVersions(loaded) == IF loaded = <<>> THEN 0 ELSE Len(loaded[1].versions)

VersionCount == CountVersions(load_manifest(vs_manifest, disk_manifest))

Apply(o) ==
    /\ disk_manifest' = <<o.manifest>>
    /\ vs_manifest' = <<o.manifest>>
    /\ node_registry' = o.registry
    /\ graph' = o.graph
    /\ store' = <<o.store>>
    /\ disk_index' = o.disk_index
    /\ disk_graph' = o.disk_graph
    /\ next_id' = o.next_id

\* The source files the dataset root starts with.
InitialFiles ==
    (PolicyTxt :> <<"a", "b", ".", " ", "c", "d", ".">>)
    @@ (ProductsCsv :> <<"h", "\n", "x", "\n", "y">>)

Init ==
    /\ files = InitialFiles
    /\ disk_manifest = <<>>
    /\ disk_graph = <<>>
    /\ disk_index = <<>>
    /\ config \in Configs
    /\ vs_manifest = <<>>
    /\ node_registry = <<>>
    /\ graph = EmptyGraph
    /\ store = <<>>
    /\ retriever = FALSE
    /\ next_id = 1
    /\ edits = 0
    /\ chunker = <<>>
    /\ deduper = NewDedupe
    /\ threads = [t \in Threads |-> Idle]
    /\ auditor = <<>>
    /\ ret = NoRet

\* The user writes a source file.
WriteFile(path, bytes) ==
    /\ edits < MaxEdits
    /\ files' = (path :> bytes) @@ files
    /\ files' # files
    /\ edits' = edits + 1
    /\ ret' = [NoRet EXCEPT !.op = "write"]
    /\ UNCHANGED <<chunker, deduper, disk_manifest, disk_graph, disk_index, config, threads, auditor, vs_manifest,
                   node_registry, graph, store, retriever, next_id>>

\* The user deletes a source file.
DeleteFile(path) ==
    /\ edits < MaxEdits
    /\ path \in DOMAIN files
    /\ files' = [p \in DOMAIN files \ {path} |-> files[p]]
    /\ edits' = edits + 1
    /\ ret' = [NoRet EXCEPT !.op = "delete"]
    /\ UNCHANGED <<chunker, deduper, disk_manifest, disk_graph, disk_index, config, threads, auditor, vs_manifest,
                   node_registry, graph, store, retriever, next_id>>

\* A source file loses its read permission.
MakeUnreadable(path) ==
    /\ edits < MaxEdits
    /\ path \in DOMAIN files
    /\ files[path] # Unreadable
    /\ files' = [files EXCEPT ![path] = Unreadable]
    /\ edits' = edits + 1
    /\ ret' = [NoRet EXCEPT !.op = "chmod"]
    /\ UNCHANGED <<chunker, deduper, disk_manifest, disk_graph, disk_index, config, threads, auditor, vs_manifest,
                   node_registry, graph, store, retriever, next_id>>

\* RagLineage(source, ...): a new engine instance on the same root takes
\* the place of the running one.
NewEngine(cfg) ==
    /\ config' = cfg
    /\ vs_manifest' = <<>>
    /\ node_registry' = <<>>
    /\ graph' = EmptyGraph
    /\ store' = <<>>
    /\ retriever' = FALSE
    /\ auditor' = <<>>
    /\ ret' = [NoRet EXCEPT !.op = "new"]
    /\ UNCHANGED <<chunker, deduper, threads, files, disk_manifest, disk_graph, disk_index, next_id, edits>>

\* RagLineage.build(version)
Build(version) ==
    /\ VersionCount < MaxVersions
    /\ IF InitializeStoreError # ""
       THEN /\ ret' = [NoRet EXCEPT !.op = "build", !.error = InitializeStoreError,
                                    !.version = version]
            /\ UNCHANGED <<disk_manifest, disk_graph, disk_index, vs_manifest,
                           node_registry, graph, store, next_id>>
       ELSE IF CreateVersionError(CurrentFS, ScanFiles(CurrentFS)) # ""
       THEN /\ store' = <<InitializeStore>>
            /\ ret' = [NoRet EXCEPT !.op = "build", !.version = version,
                                    !.error = CreateVersionError(CurrentFS,
                                                                 ScanFiles(CurrentFS))]
            /\ UNCHANGED <<disk_manifest, disk_graph, disk_index, vs_manifest,
                           node_registry, graph, next_id>>
       ELSE /\ Apply(BuildOutcome(version, graph))
            /\ ret' = [NoRet EXCEPT !.op = "build", !.version = version]
    /\ UNCHANGED <<chunker, deduper, files, config, threads, auditor, retriever, edits>>

\* The graph update holds when it calls _initialize_store: reloaded from
\* disk, unless there is no current version and update hands over to build.
GraphBeforeStore(loaded) ==
    IF loaded = <<>> \/ loaded[1].current_version = NoVersion THEN graph ELSE LoadGraph

\* RagLineage.update(version, changed_only)
Update(version, changed_only) ==
    /\ VersionCount < MaxVersions
    /\ IF InitializeStoreError # ""
       THEN /\ vs_manifest' = load_manifest(vs_manifest, disk_manifest)
            /\ graph' = GraphBeforeStore(load_manifest(vs_manifest, disk_manifest))
            /\ ret' = [NoRet EXCEPT !.op = "update", !.error = InitializeStoreError,
                                    !.version = version, !.changed_only = changed_only]
            /\ UNCHANGED <<disk_manifest, disk_graph, disk_index, node_registry,
                           store, next_id>>
       ELSE IF CreateVersionError(CurrentFS, ScanFiles(CurrentFS)) # ""
       THEN /\ vs_manifest' = load_manifest(vs_manifest, disk_manifest)
            /\ graph' = GraphBeforeStore(load_manifest(vs_manifest, disk_manifest))
            /\ store' = <<InitializeStore>>
            /\ ret' = [NoRet EXCEPT !.op = "update", !.version = version,
                                    !.changed_only = changed_only,
                                    !.error = CreateVersionError(CurrentFS,
                                                                 ScanFiles(CurrentFS))]
            /\ UNCHANGED <<disk_manifest, disk_graph, disk_index, node_registry, next_id>>
       ELSE /\ Apply(UpdateResult(version, changed_only,
                                  load_manifest(vs_manifest, disk_manifest)))
            /\ ret' = [NoRet EXCEPT !.op = "update", !.version = version,
                                    !.changed_only = changed_only]
    /\ UNCHANGED <<chunker, deduper, files, config, threads, auditor, retriever, edits>>

\* The lineage entries query builds from the results it can resolve.
LineageEntries(results, reg) ==
    LET known == SelectSeq(results, LAMBDA r : r[1] \in DOMAIN reg)
    IN  [i \in DOMAIN known |->
            [ln_id |-> reg[known[i][1]].ln_id, score |-> known[i][2],
             source |-> reg[known[i][1]].source,
             dataset_version |-> reg[known[i][1]].dataset_version,
             transform_chain |-> reg[known[i][1]].transform_chain]]

\* Whether IndexFlatL2.search may refuse the call: the library is not part
\* of the sources, and a search for zero neighbours in an index that holds
\* vectors either returns nothing or raises.
SearchMayFail(st, k) == k = 0 /\ Len(st.ids) > 0

\* What query returns or raises once retrieve has returned results: reading
\* the top result's content raises KeyError when the registry does not have
\* its id.
QueryReturn(k, filtered, filters, candidates, results) ==
    [NoRet EXCEPT
        !.op = "query",
        !.error = IF results # <<>> /\ results[1][1] \notin DOMAIN node_registry
                  THEN "KeyError" ELSE "",
        !.k = k, !.filtered = filtered, !.filters = filters,
        !.graph_depth = config.graph_depth,
        !.candidates = candidates,
        !.after_filters = IF filtered THEN apply_filters(candidates, node_registry, filters)
                          ELSE candidates,
        !.direct = DirectResults(candidates, node_registry, k, filtered, filters),
        !.results = results,
        !.lineage = IF results # <<>> /\ results[1][1] \notin DOMAIN node_registry
                    THEN <<>> ELSE LineageEntries(results, node_registry)]

\* query from the call of retrieve on, with store st and graph g in place
\* and candidates returned by the vector search.
QuerySearched(k, filtered, filters, st, g, candidates) ==
    /\ store' = <<st>>
    /\ graph' = g
    /\ retriever' = TRUE
    /\ \/ \E results \in RetrieveFrom(candidates, g, node_registry, k, filtered,
                                      filters, config.graph_depth) :
            ret' = QueryReturn(k, filtered, filters, candidates, results)
       \/ /\ SearchMayFail(st, k * 2)
          /\ ret' = [NoRet EXCEPT !.op = "query", !.error = "AssertionError", !.k = k,
                                  !.filtered = filtered, !.filters = filters,
                                  !.graph_depth = config.graph_depth]

\* query with store st and graph g in place.
QueryWith(question, k, filtered, filters, st, g) ==
    QuerySearched(k, filtered, filters, st, g, StoreSearch(st, Embed(question), k * 2))

\* RagLineage.query(question, k, filters); filtered says whether a filter
\* configuration is passed.  The first query of an engine initialises the
\* store and reloads the graph.
Query(question, k, filtered, filters) ==
    /\ IF ~retriever /\ InitializeStoreError # ""
       THEN /\ ret' = [NoRet EXCEPT !.op = "query", !.error = InitializeStoreError,
                                    !.k = k, !.filtered = filtered, !.filters = filters,
                                    !.graph_depth = config.graph_depth]
            /\ UNCHANGED <<graph, store, retriever>>
       ELSE QueryWith(question, k, filtered, filters, InitializeStore,
                      IF retriever THEN graph ELSE LoadGraph)
    /\ UNCHANGED <<chunker, deduper, files, disk_manifest, disk_graph, disk_index, config, threads, auditor,
                   vs_manifest, node_registry, next_id, edits>>

\* RagLineage.diff(version_from, version_to)
Diff(version_from, version_to) ==
    LET loaded == load_manifest(vs_manifest, disk_manifest)
        from_version == IF loaded = <<>> THEN <<>> ELSE get_version(loaded[1], version_from)
        to_version == IF loaded = <<>> THEN <<>> ELSE get_version(loaded[1], version_to)
    IN  /\ vs_manifest' = loaded
        /\ ret' = [NoRet EXCEPT
                    !.op = "diff",
                    !.error = IF from_version = <<>> \/ to_version = <<>>
                              THEN "ValueError" ELSE "",
                    !.diff = IF from_version = <<>> \/ to_version = <<>> THEN NoDiff
                             ELSE compute_diff(from_version[1], to_version[1])]
        /\ UNCHANGED <<chunker, deduper, files, disk_manifest, disk_graph, disk_index, config, threads, auditor,
                       node_registry, graph, store, retriever, next_id, edits>>

\* The filter arguments of query: none, or one of the configurations.
QueryFilters ==
    {<<FALSE, FilterConfig(Unset, Unset, Unset, DefaultMinScore)>>}
    \cup {<<TRUE, f>> : f \in FilterConfigs}

\* The dataset life cycle: the user edits files, engines are constructed,
\* and build, update and diff are called.
Next ==
    \/ \E path \in UserPaths : \E bytes \in ContentsOf(path) : WriteFile(path, bytes)
    \/ \E path \in UserPaths : DeleteFile(path)
    \/ \E cfg \in Configs : NewEngine(cfg)
    \/ \E version \in Tags : Build(version)
    \/ \E version \in Tags : \E changed_only \in BOOLEAN : Update(version, changed_only)
    \/ \E version_from \in Tags : \E version_to \in Tags : Diff(version_from, version_to)

Spec == Init /\ [][Next]_vars

\* Retrieval: engines are constructed, build and update are called, and
\* queries are asked, over the source files the root starts with.
NextQuery ==
    \/ \E cfg \in Configs : NewEngine(cfg)
    \/ \E version \in Tags : Build(version)
    \/ \E version \in Tags : \E changed_only \in BOOLEAN : Update(version, changed_only)
    \/ \E question \in Questions : \E k \in 0..MaxK : \E f \in QueryFilters :
            Query(question, k, f[1], f[2])

SpecQuery == Init /\ [][NextQuery]_vars

\* Backends: engines are constructed with backend names of the caller's
\* choice, and build, update and query are called on them.
NextConfig ==
    \/ \E cfg \in BackendConfigs : NewEngine(cfg)
    \/ \E version \in Tags : Build(version)
    \/ \E version \in Tags : \E changed_only \in BOOLEAN : Update(version, changed_only)
    \/ \E question \in Questions :
            Query(question, 1, FALSE, FilterConfig(Unset, Unset, Unset, DefaultMinScore))

SpecConfig == Init /\ [][NextConfig]_vars

\* Read failures: source files lose their read permission, engines are
\* constructed, and build and update are called.
NextRead ==
    \/ \E path \in UserPaths : MakeUnreadable(path)
    \/ \E cfg \in Configs : NewEngine(cfg)
    \/ \E version \in Tags : Build(version)
    \/ \E version \in Tags : \E changed_only \in BOOLEAN : Update(version, changed_only)

SpecRead == Init /\ [][NextRead]_vars

\* -------------------------------------------- a lineage graph on its own
\* The records added to a LineageGraph handled directly, as the graph
\* tests do: three ids, and two records for the first of them.
GraphIds == {<<1>>, <<2>>, <<3>>}

GraphRecord(ln_id, content) ==
    LineageNode(ln_id, content, FileSource("test.txt"), "v1.0", <<>>,
                compute_content_hash(content), NoMetadata)

GraphRecords ==
    {GraphRecord(id, <<"a">>) : id \in GraphIds} \cup {GraphRecord(<<1>>, <<"b">>)}

EdgeTypes == {"adjacent", "semantic"}

\* graph.add_node(ln); the caller keeps ln in its registry.
GraphAddNode(ln) ==
    /\ graph' = add_node(graph, ln)
    /\ node_registry' = (ln.ln_id :> ln) @@ node_registry
    /\ ret' = [NoRet EXCEPT !.op = "add_node", !.ln_id = ln.ln_id, !.node = <<ln>>]
    /\ UNCHANGED <<chunker, deduper, files, disk_manifest, disk_graph, disk_index, config, threads, auditor, vs_manifest,
                   store, retriever, next_id, edits>>

\* graph.add_edge(source_id, target_id, edge_type)
GraphAddEdge(source_id, target_id, edge_type) ==
    /\ Cardinality(DOMAIN graph.edges \cup {<<source_id, target_id>>}) <= MaxEdges
    /\ graph' = add_edge(graph, source_id, target_id, edge_type)
    /\ ret' = [NoRet EXCEPT !.op = "add_edge",
                            !.error = add_edge_error(graph, source_id, target_id),
                            !.ln_id = source_id, !.target_id = target_id,
                            !.edge_type = edge_type]
    /\ UNCHANGED <<chunker, deduper, files, disk_manifest, disk_graph, disk_index, config, threads, auditor, vs_manifest,
                   node_registry, store, retriever, next_id, edits>>

\* graph.neighbors(ln_id, depth): list(neighbors_set), in any order.
GraphNeighbors(ln_id, depth) ==
    /\ \E order \in ListOfSetPrefixes(neighbors(graph, ln_id, depth), Cardinality(GraphIds)) :
          ret' = [NoRet EXCEPT !.op = "neighbors", !.ln_id = ln_id, !.depth = depth,
                               !.neighbors = order]
    /\ UNCHANGED <<chunker, deduper, files, disk_manifest, disk_graph, disk_index, config, threads, auditor, vs_manifest,
                   node_registry, graph, store, retriever, next_id, edits>>

\* The registry cut down to the given ids.
RegistryOf(ids) == [id \in ids |-> node_registry[id]]

\* graph.load_json(graph.export_json(), registry) where the registry holds
\* the records of the given ids.
GraphLoad(ids) ==
    /\ ids \subseteq DOMAIN node_registry
    /\ graph' = load_json(export_json(graph), RegistryOf(ids))
    /\ ret' = [NoRet EXCEPT !.op = "load_json", !.ids = ids]
    /\ UNCHANGED <<chunker, deduper, files, disk_manifest, disk_graph, disk_index, config, threads, auditor, vs_manifest,
                   node_registry, store, retriever, next_id, edits>>

NextGraph ==
    \/ \E ln \in GraphRecords : GraphAddNode(ln)
    \/ \E source_id \in GraphIds : \E target_id \in GraphIds : \E edge_type \in EdgeTypes :
            GraphAddEdge(source_id, target_id, edge_type)
    \/ \E ln_id \in GraphIds : \E depth \in 0..MaxDepth : GraphNeighbors(ln_id, depth)
    \/ \E ids \in SUBSET GraphIds : GraphLoad(ids)

SpecGraph == Init /\ [][NextGraph]_vars

\* ------------------------------------------- a deduplicator on its own
\* The records passed to a DedupeTransform handled directly: two ids, two
\* contents, already chunked.
DedupeRecords ==
    { LineageNode(<<id>>, content, FileSource("test.txt"), "v1.0", <<"simple_chunk">>,
                  compute_content_hash(content), NoMetadata) :
        id \in {1, 2}, content \in {<<"a">>, <<"b">>} }

\* dedupe.transform(ln), the caller collecting what it yields.
DedupeCall(ln) ==
    /\ Len(deduper.input) < MaxRecords
    /\ deduper' = [seen_hashes |-> DedupeTransform(ln, deduper.seen_hashes).seen,
                   input |-> Append(deduper.input, ln),
                   output |-> deduper.output \o DedupeTransform(ln, deduper.seen_hashes).out]
    /\ ret' = [NoRet EXCEPT !.op = "dedupe", !.node = <<ln>>,
                            !.emitted = DedupeTransform(ln, deduper.seen_hashes).out]
    /\ UNCHANGED <<files, disk_manifest, disk_graph, disk_index, config, threads, auditor, vs_manifest,
                   node_registry, graph, store, retriever, next_id, edits, chunker>>

\* dedupe.reset()
DedupeReset ==
    /\ deduper' = [seen_hashes |-> {}, input |-> <<>>, output |-> <<>>]
    /\ ret' = [NoRet EXCEPT !.op = "reset"]
    /\ UNCHANGED <<files, disk_manifest, disk_graph, disk_index, config, threads, auditor, vs_manifest,
                   node_registry, graph, store, retriever, next_id, edits, chunker>>

NextDedupe ==
    \/ \E ln \in DedupeRecords : DedupeCall(ln)
    \/ DedupeReset

SpecDedupe == Init /\ [][NextDedupe]_vars

\* ------------------------------------------ a simple chunker on its own
\* The parameters a SimpleChunker is constructed with, and the contents it
\* is given.
ChunkSizes == 0..MaxChunkSize

Overlaps == (0 - 1)..MaxChunkSize

ChunkContents == UNION {[1..n -> {"a", "b"}] : n \in 0..MaxContentLen}

\* SimpleChunker(chunk_size, overlap)
NewSimpleChunker(chunk_size, overlap) ==
    /\ chunker' = <<[chunk_size |-> chunk_size, overlap |-> overlap]>>
    /\ ret' = [NoRet EXCEPT !.op = "SimpleChunker", !.chunk_size = chunk_size,
                            !.overlap = overlap]
    /\ UNCHANGED <<files, disk_manifest, disk_graph, disk_index, config, threads, auditor, vs_manifest,
                   node_registry, graph, store, retriever, next_id, edits, deduper>>

\* chunker.chunk(content): the chunks, unless the call does not return.
Chunk(content) ==
    /\ chunker # <<>>
    /\ ret' = IF SimpleChunkReturns(content, chunker[1].chunk_size, chunker[1].overlap)
              THEN [NoRet EXCEPT !.op = "chunk", !.chunk_size = chunker[1].chunk_size,
                                 !.overlap = chunker[1].overlap, !.content = content,
                                 !.chunks = SimpleChunk(content, chunker[1].chunk_size,
                                                        chunker[1].overlap)]
              ELSE [NoRet EXCEPT !.op = "chunk", !.error = "no return",
                                 !.chunk_size = chunker[1].chunk_size,
                                 !.overlap = chunker[1].overlap, !.content = content]
    /\ UNCHANGED <<files, disk_manifest, disk_graph, disk_index, config, threads, auditor, vs_manifest,
                   node_registry, graph, store, retriever, next_id, edits, chunker, deduper>>

NextChunker ==
    \/ \E chunk_size \in ChunkSizes : \E overlap \in Overlaps :
            NewSimpleChunker(chunk_size, overlap)
    \/ \E content \in ChunkContents : Chunk(content)

SpecChunker == Init /\ [][NextChunker]_vars

\* ------------------------------------------------- the semantic chunker
MaxSemanticSize == 5
MaxSentences == 3
MaxSemanticLen == 2

\* The parameters a SemanticChunker is constructed with.
SemanticSizes == 1..MaxSemanticSize

SemanticOverlaps == 0..MaxSemanticSize

\* The words the sentences of a text are made of.
Words == { <<"a">>, <<"a", "a", "a">> }

\* The text whose sentences are the words ws, ". " between them.
RECURSIVE TextOf(_)
TextOf(ws) ==
    IF ws = <<>> THEN <<>>
    ELSE IF Len(ws) = 1 THEN ws[1]
    ELSE ws[1] \o <<".", " ">> \o TextOf(Tail(ws))

\* The contents the chunker is given: texts of up to MaxSentences
\* sentences, and every short string of letters, stops and whitespace.
SemanticContents ==
    {TextOf(ws) : ws \in UNION {[1..n -> Words] : n \in 1..MaxSentences}}
    \cup UNION {[1..n -> {"a", ".", " ", "\n"}] : n \in 0..MaxSemanticLen}

\* SemanticChunker(chunk_size, overlap)
NewSemanticChunker(chunk_size, overlap) ==
    /\ chunker' = <<[chunk_size |-> chunk_size, overlap |-> overlap]>>
    /\ ret' = [NoRet EXCEPT !.op = "SemanticChunker", !.chunk_size = chunk_size,
                            !.overlap = overlap]
    /\ UNCHANGED <<files, disk_manifest, disk_graph, disk_index, config, threads, auditor, vs_manifest,
                   node_registry, graph, store, retriever, next_id, edits, deduper>>

\* chunker.chunk(content) of a SemanticChunker
SemanticChunkCall(content) ==
    /\ chunker # <<>>
    /\ ret' = [NoRet EXCEPT !.op = "semantic_chunk", !.chunk_size = chunker[1].chunk_size,
                            !.overlap = chunker[1].overlap, !.content = content,
                            !.chunks = SemanticChunk(content, chunker[1].chunk_size,
                                                     chunker[1].overlap)]
    /\ UNCHANGED <<files, disk_manifest, disk_graph, disk_index, config, threads, auditor, vs_manifest,
                   node_registry, graph, store, retriever, next_id, edits, chunker, deduper>>

NextSemantic ==
    \/ \E chunk_size \in SemanticSizes : \E overlap \in SemanticOverlaps :
            NewSemanticChunker(chunk_size, overlap)
    \/ \E content \in SemanticContents : SemanticChunkCall(content)

SpecSemantic == Init /\ [][NextSemantic]_vars

\* ------------------------------------------------------- audit checks
\* The decimal digits, by value.
Digits == <<"0", "1", "2", "3", "4", "5", "6", "7", "8", "9">>

IsDigit(c) == \E d \in DOMAIN Digits : Digits[d] = c

DigitValue(c) == (CHOOSE d \in DOMAIN Digits : Digits[d] = c) - 1

\* int(s) for a string of digits; 0 for the empty string.
RECURSIVE DigitsValue(_)
DigitsValue(s) ==
    IF s = <<>> THEN 0
    ELSE 10 * DigitsValue(SubSeq(s, 1, Len(s) - 1)) + DigitValue(s[Len(s)])

\* v.replace("v", "")
ReplaceV(s) == SelectSeq(s, LAMBDA c : c # "v")

\* The number read after the decimal point at position dot, in tenths.
TenthsAt(s, dot) ==
    10 * DigitsValue(SubSeq(s, 1, dot - 1))
    + (IF dot < Len(s) THEN DigitValue(s[dot + 1]) ELSE 0)

\* float(s) for a string of digits, points and letters with at most one
\* digit after the point: <<>> for ValueError, else the value in tenths.
ParseFloat(s) ==
    IF \/ \E i \in DOMAIN s : s[i] # "." /\ ~IsDigit(s[i])
       \/ Cardinality({i \in DOMAIN s : s[i] = "."}) > 1
       \/ Cardinality({i \in DOMAIN s : s[i] = "."}) = Len(s)
    THEN <<>>
    ELSE IF \A i \in DOMAIN s : s[i] # "." THEN <<10 * DigitsValue(s)>>
    ELSE <<TenthsAt(s, CHOOSE i \in DOMAIN s : s[i] = ".")>>

\* The pairs of tenths below 6.0 that are 1.0 apart and whose doubles
\* differ by more than 1.0: 2.2 - 1.2 and 2.7 - 1.7 are 1.0000000000000002,
\* 4.4 - 3.4 and 4.9 - 3.9 are 1.0000000000000004.
RoundsAboveOne == {<<22, 12>>, <<27, 17>>, <<44, 34>>, <<49, 39>>}

\* current_num - max_answer_num > 1.0 in double arithmetic, for tenths
\* below 6.0.
DiffAboveOne(current_num, max_answer_num) ==
    current_num - max_answer_num > 10 \/ <<current_num, max_answer_num>> \in RoundsAboveOne

\* max(answer_nums)
MaxOf(nums) == CHOOSE n \in nums : \A m \in nums : m <= n

\* The try block of check_staleness for the parsed numbers; a number that
\* did not parse raises ValueError, which falls through to "pass".
StalenessOfNumbers(current_num, answer_nums) ==
    IF current_num = <<>> \/ <<>> \in answer_nums THEN "pass"
    ELSE IF DiffAboveOne(current_num[1], MaxOf({n[1] : n \in answer_nums})) THEN "fail"
    ELSE IF current_num[1] - MaxOf({n[1] : n \in answer_nums}) > 0 THEN "warning"
    ELSE "pass"

\* {entry.dataset_version for entry in answer.lineage}
AnswerVersions(lineage) == {lineage[i].dataset_version : i \in DOMAIN lineage}

\* check_staleness(answer, current_version); current_version is None
\* (<<>>) or <<string>>.
check_staleness(lineage, current_version) ==
    IF lineage = <<>> THEN "warning"
    ELSE IF /\ current_version # <<>>
            /\ current_version[1] # <<>>
            /\ current_version[1] \notin AnswerVersions(lineage)
    THEN StalenessOfNumbers(ParseFloat(ReplaceV(current_version[1])),
                            {ParseFloat(ReplaceV(v)) : v \in AnswerVersions(lineage)})
    ELSE "pass"

\* A check that looks at the number of entries, not at their versions.
check_version_consistency_by_length(lineage) ==
    IF lineage = <<>> THEN "unknown"
    ELSE IF Len(lineage) = 1 THEN "single_version"
    ELSE "mixed_versions"

\* check_version_consistency(answer)
check_version_consistency(lineage) ==
    IF lineage = <<>> THEN "unknown"
    ELSE IF Cardinality(AnswerVersions(lineage)) = 1 THEN "single_version"
    ELSE IF Cardinality(AnswerVersions(lineage)) > 1 THEN "mixed_versions"
    ELSE "unknown"

\* The dataset versions of the audited answers: "v1.2", "v2.2", "v2.4",
\* "v3.4" and "dev".
AuditVersions ==
    { <<"v", "1", ".", "2">>, <<"v", "2", ".", "2">>, <<"v", "2", ".", "4">>,
      <<"v", "3", ".", "4">>, <<"d", "e", "v">> }

\* A lineage entry of the given dataset version.
LineageEntry(dataset_version) ==
    [ln_id |-> <<1>>, score |-> 100, source |-> FileSource("test.txt"),
     dataset_version |-> dataset_version, transform_chain |-> <<>>]

\* The lineages of the audited answers.
AuditLineages ==
    UNION {[1..n -> {LineageEntry(v) : v \in AuditVersions}] : n \in 0..MaxLineage}

\* The current versions passed: None, "", or a version.
CurrentVersions == {<<>>, << <<>> >>} \cup {<<v>> : v \in AuditVersions}

\* check_staleness(answer, current_version)
CheckStaleness(lineage, current_version) ==
    /\ ret' = [NoRet EXCEPT !.op = "check_staleness", !.lineage = lineage,
                            !.current_version = current_version,
                            !.status = check_staleness(lineage, current_version)]
    /\ UNCHANGED <<files, disk_manifest, disk_graph, disk_index, config, threads, auditor, vs_manifest,
                   node_registry, graph, store, retriever, next_id, edits, chunker, deduper>>

\* check_version_consistency(answer)
CheckVersionConsistency(lineage) ==
    /\ ret' = [NoRet EXCEPT !.op = "check_version_consistency", !.lineage = lineage,
                            !.status = check_version_consistency(lineage)]
    /\ UNCHANGED <<files, disk_manifest, disk_graph, disk_index, config, threads, auditor, vs_manifest,
                   node_registry, graph, store, retriever, next_id, edits, chunker, deduper>>

\* risky_transforms of check_transform_risks: stage name -> message.
risky_transforms ==
    [t \in {"normalize_aggressive", "ocr", "translation", "summarization"} |->
        CASE t = "normalize_aggressive" -> "Aggressive normalization may lose information"
          [] t = "ocr" -> "OCR may introduce errors"
          [] t = "translation" -> "Translation may introduce semantic drift"
          [] t = "summarization" -> "Summarization may lose important details"]

\* The inner loop of check_transform_risks over one transform chain.
RECURSIVE RisksOfChain(_, _)
RisksOfChain(chain, risk_flags) ==
    IF chain = <<>> THEN risk_flags
    ELSE IF Head(chain) \in DOMAIN risky_transforms
            /\ ~InSeq(risky_transforms[Head(chain)], risk_flags)
    THEN RisksOfChain(Tail(chain), Append(risk_flags, risky_transforms[Head(chain)]))
    ELSE RisksOfChain(Tail(chain), risk_flags)

\* The outer loop over the lineage entries.
RECURSIVE RisksOfEntries(_, _)
RisksOfEntries(lineage, risk_flags) ==
    IF lineage = <<>> THEN risk_flags
    ELSE RisksOfEntries(Tail(lineage), RisksOfChain(Head(lineage).transform_chain, risk_flags))

\* A check that reports a risky stage every time it meets it.
RECURSIVE check_transform_risks_repeating(_)
check_transform_risks_repeating(lineage) ==
    IF lineage = <<>> THEN <<>>
    ELSE [i \in DOMAIN SelectSeq(Head(lineage).transform_chain,
                                 LAMBDA t : t \in DOMAIN risky_transforms) |->
             risky_transforms[SelectSeq(Head(lineage).transform_chain,
                                        LAMBDA t : t \in DOMAIN risky_transforms)[i]]]
         \o check_transform_risks_repeating(Tail(lineage))

\* check_transform_risks(answer)
check_transform_risks(lineage) == RisksOfEntries(lineage, <<>>)

\* The transform chains of the entries audited for risks.
RiskChains ==
    { <<>>,
      <<"simple_chunk", "normalize_aggressive", "deduplicate">>,
      <<"ocr", "normalize_aggressive", "ocr">>,
      <<"translation", "semantic_chunk">>,
      <<"summarization", "ocr">> }

\* The lineages audited for risks.
RiskLineages ==
    UNION {[1..n -> {[LineageEntry(<<"v", "1", ".", "2">>) EXCEPT !.transform_chain = c] :
                        c \in RiskChains}] : n \in 0..MaxLineage}

\* check_transform_risks(answer)
CheckTransformRisks(lineage) ==
    /\ ret' = [NoRet EXCEPT !.op = "check_transform_risks", !.lineage = lineage,
                            !.risk_flags = check_transform_risks(lineage)]
    /\ UNCHANGED <<files, disk_manifest, disk_graph, disk_index, config, threads, auditor, vs_manifest,
                   node_registry, graph, store, retriever, next_id, edits, chunker, deduper>>

NextAudit ==
    \/ \E lineage \in AuditLineages : \E current_version \in CurrentVersions :
            CheckStaleness(lineage, current_version)
    \/ \E lineage \in AuditLineages : CheckVersionConsistency(lineage)
    \/ \E lineage \in RiskLineages : CheckTransformRisks(lineage)

SpecAudit == Init /\ [][NextAudit]_vars

\* ------------------------------------------------- audit on the engine
\* VersionStore.get_current_version: None (<<>>) without a manifest or
\* without a version in it, else <<tag>>.
get_current_version(loaded) ==
    IF loaded = <<>> THEN <<>>
    ELSE IF loaded[1].current_version = NoVersion THEN <<>>
    ELSE <<loaded[1].current_version>>

\* The characters of a version tag.
TagChars(tag) ==
    CASE tag = "v1.0" -> <<"v", "1", ".", "0">>
      [] tag = "v1.1" -> <<"v", "1", ".", "1">>

\* The current version as check_staleness takes it: None or the string.
VersionChars(current_version) ==
    IF current_version = <<>> THEN <<>> ELSE <<TagChars(current_version[1])>>

\* The lineages of the answers audited on the engine: no entry, or one of a
\* version built or updated to.
EngineLineages == {<<>>} \cup {<<LineageEntry(TagChars(tag))>> : tag \in Tags}

\* The auditor audit uses: the one in place, else a new one constructed
\* with the version store's current version.
AuditorInUse(loaded) == IF auditor # <<>> THEN auditor[1] ELSE get_current_version(loaded)

\* RagLineage.audit(answer): the staleness of the report.  The manifest is
\* loaded only when the auditor is constructed.
Audit(lineage) ==
    /\ vs_manifest' = IF auditor # <<>> THEN vs_manifest
                      ELSE load_manifest(vs_manifest, disk_manifest)
    /\ auditor' = <<AuditorInUse(load_manifest(vs_manifest, disk_manifest))>>
    /\ ret' = [NoRet EXCEPT
                !.op = "audit", !.lineage = lineage,
                !.current_version =
                    VersionChars(AuditorInUse(load_manifest(vs_manifest, disk_manifest))),
                !.status = check_staleness(lineage,
                              VersionChars(AuditorInUse(load_manifest(vs_manifest,
                                                                      disk_manifest))))]
    /\ UNCHANGED <<files, disk_manifest, disk_graph, disk_index, config, threads,
                   node_registry, graph, store, retriever, next_id, edits, chunker, deduper>>

\* Engines are constructed, build and update are called, and answers are
\* audited.
NextEngineAudit ==
    \/ \E cfg \in Configs : NewEngine(cfg)
    \/ \E version \in Tags : Build(version)
    \/ \E version \in Tags : \E changed_only \in BOOLEAN : Update(version, changed_only)
    \/ \E lineage \in EngineLineages : Audit(lineage)

SpecEngineAudit == Init /\ [][NextEngineAudit]_vars

\* ------------------------------------------- a version store on its own
\* The file lists passed to create_version.
VersionFiles == {<<PolicyTxt>>, <<PolicyTxt, ProductsCsv>>}

\* VersionStore(root): a new store on the same root takes the place of the
\* one in use.
NewVersionStore ==
    /\ vs_manifest' = <<>>
    /\ ret' = [NoRet EXCEPT !.op = "VersionStore"]
    /\ UNCHANGED <<files, disk_manifest, disk_graph, disk_index, config, threads, auditor, node_registry,
                   graph, store, retriever, next_id, edits, chunker, deduper>>

\* manifest.json is overwritten with JSON data that is not a manifest.
CorruptManifest ==
    /\ edits < MaxEdits
    /\ disk_manifest # <<>>
    /\ disk_manifest' = <<InvalidManifest>>
    /\ edits' = edits + 1
    /\ ret' = [NoRet EXCEPT !.op = "corrupt"]
    /\ UNCHANGED <<files, disk_graph, disk_index, config, threads, auditor, vs_manifest, node_registry,
                   graph, store, retriever, next_id, chunker, deduper>>

\* version_store.load_manifest()
StoreLoadManifest ==
    /\ vs_manifest' = load_manifest(vs_manifest, disk_manifest)
    /\ ret' = [NoRet EXCEPT !.op = "load_manifest",
                            !.manifest = load_manifest(vs_manifest, disk_manifest)]
    /\ UNCHANGED <<files, disk_manifest, disk_graph, disk_index, config, threads, auditor, node_registry,
                   graph, store, retriever, next_id, edits, chunker, deduper>>

\* version_store.create_version(version, files)
StoreCreateVersion(version, paths) ==
    /\ VersionCount < MaxVersions
    /\ IF CreateVersionError(CurrentFS, paths) # ""
       THEN /\ ret' = [NoRet EXCEPT !.op = "create_version", !.version = version,
                                    !.error = CreateVersionError(CurrentFS, paths)]
            /\ UNCHANGED <<disk_manifest, vs_manifest>>
       ELSE /\ disk_manifest' =
                    <<create_version(CurrentFS, vs_manifest, version, paths).manifest>>
            /\ vs_manifest' =
                    <<create_version(CurrentFS, vs_manifest, version, paths).manifest>>
            /\ ret' = [NoRet EXCEPT
                        !.op = "create_version", !.version = version,
                        !.version_obj =
                          <<create_version(CurrentFS, vs_manifest, version, paths).version_obj>>]
    /\ UNCHANGED <<files, disk_graph, disk_index, config, threads, auditor, node_registry,
                   graph, store, retriever, next_id, edits, chunker, deduper>>

\* VersionStore.get_version: None without a manifest.
store_get_version(loaded, version) ==
    IF loaded = <<>> THEN <<>> ELSE get_version(loaded[1], version)

\* version_store.get_version(version)
StoreGetVersion(version) ==
    /\ vs_manifest' = load_manifest(vs_manifest, disk_manifest)
    /\ ret' = [NoRet EXCEPT
                !.op = "get_version", !.version = version,
                !.version_obj = store_get_version(load_manifest(vs_manifest, disk_manifest),
                                                  version)]
    /\ UNCHANGED <<files, disk_manifest, disk_graph, disk_index, config, threads, auditor, node_registry,
                   graph, store, retriever, next_id, edits, chunker, deduper>>

NextVersions ==
    \/ \E path \in UserPaths : \E bytes \in ContentsOf(path) : WriteFile(path, bytes)
    \/ CorruptManifest
    \/ NewVersionStore
    \/ StoreLoadManifest
    \/ \E version \in Tags : \E paths \in VersionFiles : StoreCreateVersion(version, paths)
    \/ \E version \in Tags : StoreGetVersion(version)

SpecVersions == Init /\ [][NextVersions]_vars

\* ------------------------------------------------- concurrent queries
\* query(question, k) taken apart into the steps at which threads calling
\* it on one engine may interleave.
NoFilters == FilterConfig(Unset, Unset, Unset, DefaultMinScore)

\* A step of thread t leaves the other threads where they are.
ThreadStep(t, next) == threads' = [threads EXCEPT ![t] = next]

\* query is entered: self.retriever is read, and when it is None the
\* embedder and the store are initialised.
QueryEnter(t, question, k) ==
    /\ threads[t].pc = "idle"
    /\ IF retriever
       THEN /\ ThreadStep(t, [Idle EXCEPT !.pc = "retrieve", !.question = question, !.k = k])
            /\ UNCHANGED store
       ELSE IF InitializeStoreError # ""
       THEN /\ ThreadStep(t, [Idle EXCEPT !.pc = "done", !.question = question, !.k = k,
                                          !.error = InitializeStoreError])
            /\ UNCHANGED store
       ELSE /\ ThreadStep(t, [Idle EXCEPT !.pc = "load_graph", !.question = question,
                                          !.k = k])
            /\ store' = <<InitializeStore>>
    /\ ret' = [NoRet EXCEPT !.op = "enter"]
    /\ UNCHANGED <<files, disk_manifest, disk_graph, disk_index, config, vs_manifest,
                   node_registry, graph, retriever, next_id, edits, chunker, deduper, auditor>>

\* _load_graph up to self.graph.clear() in load_json; without a snapshot
\* on disk nothing is loaded.
QueryClearGraph(t) ==
    /\ threads[t].pc = "load_graph"
    /\ IF disk_graph # <<>>
       THEN /\ graph' = EmptyGraph
            /\ ThreadStep(t, [threads[t] EXCEPT !.pc = "add_nodes"])
       ELSE /\ graph' = graph
            /\ ThreadStep(t, [threads[t] EXCEPT !.pc = "set_retriever"])
    /\ ret' = [NoRet EXCEPT !.op = "clear"]
    /\ UNCHANGED <<files, disk_manifest, disk_graph, disk_index, config, vs_manifest,
                   node_registry, store, retriever, next_id, edits, chunker, deduper, auditor>>

\* The loops of load_json: the nodes and edges of the snapshot are added.
QueryAddNodes(t) ==
    /\ threads[t].pc = "add_nodes"
    /\ graph' = LoadGraph
    /\ ThreadStep(t, [threads[t] EXCEPT !.pc = "set_retriever"])
    /\ ret' = [NoRet EXCEPT !.op = "add_nodes"]
    /\ UNCHANGED <<files, disk_manifest, disk_graph, disk_index, config, vs_manifest,
                   node_registry, store, retriever, next_id, edits, chunker, deduper, auditor>>

\* self.retriever = Retriever(embedder, store, self.graph, self.node_registry)
QuerySetRetriever(t) ==
    /\ threads[t].pc = "set_retriever"
    /\ retriever' = TRUE
    /\ ThreadStep(t, [threads[t] EXCEPT !.pc = "retrieve"])
    /\ ret' = [NoRet EXCEPT !.op = "set_retriever"]
    /\ UNCHANGED <<files, disk_manifest, disk_graph, disk_index, config, vs_manifest,
                   node_registry, graph, store, next_id, edits, chunker, deduper, auditor>>

\* self.retriever.retrieve(question, k, None, graph_depth), on the graph as
\* it is at that moment.
QueryRetrieve(t) ==
    /\ threads[t].pc = "retrieve"
    /\ \E results \in RetrieveFrom(StoreSearch(store[1], Embed(threads[t].question),
                                               threads[t].k * 2),
                                   graph, node_registry, threads[t].k, FALSE, NoFilters,
                                   config.graph_depth) :
          /\ ThreadStep(t, [threads[t] EXCEPT !.pc = "done", !.results = results])
          /\ ret' = [NoRet EXCEPT !.op = "retrieve", !.k = threads[t].k,
                                  !.results = results]
    /\ UNCHANGED <<files, disk_manifest, disk_graph, disk_index, config, vs_manifest,
                   node_registry, graph, store, retriever, next_id, edits, chunker, deduper, auditor>>

\* query returns to its caller.
QueryLeave(t) ==
    /\ threads[t].pc = "done"
    /\ ThreadStep(t, Idle)
    /\ ret' = [NoRet EXCEPT !.op = "leave"]
    /\ UNCHANGED <<files, disk_manifest, disk_graph, disk_index, config, vs_manifest,
                   node_registry, graph, store, retriever, next_id, edits, chunker, deduper, auditor>>

\* The k of the concurrent queries: more than the chunks of policy.txt, so
\* that the neighbours the expansion adds are part of the results when
\* that file is all that is indexed.
WideK == 3

\* No thread is in query.
AllIdle == \A t \in Threads : threads[t].pc = "idle"

\* Engines are constructed and built and a file is deleted while no query
\* is in flight, and the threads call query.
NextConcurrent ==
    \/ AllIdle /\ \E cfg \in Configs : NewEngine(cfg)
    \/ AllIdle /\ \E version \in Tags : Build(version)
    \/ AllIdle /\ DeleteFile(ProductsCsv)
    \/ \E t \in Threads : QueryEnter(t, <<"a">>, WideK)
    \/ \E t \in Threads : QueryClearGraph(t)
    \/ \E t \in Threads : QueryAddNodes(t)
    \/ \E t \in Threads : QuerySetRetriever(t)
    \/ \E t \in Threads : QueryRetrieve(t)
    \/ \E t \in Threads : QueryLeave(t)

SpecConcurrent == Init /\ [][NextConcurrent]_vars

\* ------------------------------------------------------------- properties
\* The manifest the version store works on: the cached one, else the file.
Manifest == load_manifest(vs_manifest, disk_manifest)

\* The versions recorded so far.
Versions == IF Manifest = <<>> THEN <<>> ELSE Manifest[1].versions

\* The paths a version records, and the hash it records for a path.
PathsOf(version_obj) == {version_obj.files[i].path : i \in DOMAIN version_obj.files}

HashOf(version_obj, path) ==
    (CHOOSE e \in Range(version_obj.files) : e.path = path).hash

\* Whether a list has no element twice.
NoRepeats(s) == \A i, j \in DOMAIN s : i # j => s[i] # s[j]

\* The ids of a result list.
IdsOf(results) == {results[i][1] : i \in DOMAIN results}

\* C1: update(tag, changed_only=True) keeps every record that was there
\* before it: an id that was a node of the graph and a key of the registry
\* is still both, with its edges, and an id of the persisted graph snapshot
\* is still in the snapshot and in the graph after the update, also when the
\* update is run by a new engine instance on the persisted state.
C1_UpdateKeepsRecords ==
    [][(ret'.op = "update" /\ ret'.changed_only) =>
          /\ \A id \in DOMAIN graph.nodes \cap DOMAIN node_registry :
                /\ id \in DOMAIN graph'.nodes
                /\ id \in DOMAIN node_registry'
          /\ \A e \in DOMAIN graph.edges :
                e \in DOMAIN graph'.edges /\ graph'.edges[e] = graph.edges[e]
          /\ disk_graph # <<>> =>
                /\ disk_graph' # <<>>
                /\ \A id \in DOMAIN disk_graph[1].nodes :
                      /\ id \in DOMAIN disk_graph'[1].nodes
                      /\ id \in DOMAIN graph'.nodes
                /\ disk_graph[1].edges \subseteq disk_graph'[1].edges]_vars

\* C2: a dataset version records exactly the user's source files under the
\* root, so a diff of v1.0 against v1.1, both holding the text file and the
\* CSV with only the text file edited in between, reports the text file as
\* modified, the CSV as unchanged, and nothing added or removed.
C2_ScenarioB ==
    /\ \A i \in DOMAIN Versions : PathsOf(Versions[i]) \subseteq UserPaths
    /\ (/\ ret.op = "diff" /\ ret.error = ""
        /\ ret.diff.version_from = "v1.0" /\ ret.diff.version_to = "v1.1"
        /\ Len(Versions) = 2
        /\ Versions[1].version = "v1.0" /\ Versions[2].version = "v1.1"
        /\ UserPaths \subseteq PathsOf(Versions[1]) \cap PathsOf(Versions[2])
        /\ HashOf(Versions[1], PolicyTxt) # HashOf(Versions[2], PolicyTxt)
        /\ HashOf(Versions[1], ProductsCsv) = HashOf(Versions[2], ProductsCsv))
       => /\ ret.diff.modified_files = <<PolicyTxt>>
          /\ ret.diff.unchanged_files = <<ProductsCsv>>
          /\ ret.diff.added_files = <<>>
          /\ ret.diff.removed_files = <<>>

\* C3: a create_version call (made by build and by update) appends the new
\* version to the earlier list and changes no earlier version, makes its
\* tag the current version, and get_version finds every tag created so far.
C3_AppendOnly ==
    [][ret'.op \in {"build", "update"} =>
          /\ Len(Versions') = Len(Versions) + 1
          /\ SubSeq(Versions', 1, Len(Versions)) = Versions
          /\ Versions'[Len(Versions')].version = ret'.version
          /\ Manifest'[1].current_version = ret'.version
          /\ disk_manifest' = Manifest'
          /\ \A i \in DOMAIN Versions' :
                get_version(Manifest'[1], Versions'[i].version) # <<>>]_vars

\* C3 witness: a second version was appended by an update.
C3_Witness == ret.op = "update" /\ Len(Versions) = 2

\* C4: retrieve returns at most k entries, in non-increasing order of
\* score, with every score between 0 and 1 (0 and 100 percent).
C4_AtMostKSorted ==
    ret.op = "query" =>
        /\ Len(ret.results) <= ret.k
        /\ \A i, j \in DOMAIN ret.results : i < j => ret.results[i][2] >= ret.results[j][2]
        /\ \A i \in DOMAIN ret.results : ret.results[i][2] \in 0..100

\* C4 witness: a query with graph expansion returned k = 2 entries of
\* different scores.
C4_Witness ==
    /\ ret.op = "query" /\ ret.k = 2 /\ ret.graph_depth > 0
    /\ Len(ret.results) = 2
    /\ ret.results[1][2] > ret.results[2][2]

\* C5: with graph_depth > 0 no record id appears twice in the list
\* retrieve returns.
C5_NoDuplicateIds ==
    (ret.op = "query" /\ ret.graph_depth > 0) =>
        \A i, j \in DOMAIN ret.results :
            i # j => ret.results[i][1] # ret.results[j][1]

\* C6: with graph_depth > 0 no candidate of the merged direct and expanded
\* results that is left out of the returned list has a strictly higher
\* score than a returned entry.
C6_SortBeforeTruncate ==
    (ret.op = "query" /\ ret.error # "AssertionError" /\ ret.graph_depth > 0) =>
        \A c \in ExpandedResults(ret.direct, graph, node_registry, ret.graph_depth) :
            c \notin Range(ret.results) =>
                \A i \in DOMAIN ret.results : c[2] <= ret.results[i][2]

\* C7: every id retrieve returns is a key of the registry, with or without
\* a filter configuration, so query resolves every returned id.
C7_ResultsInRegistry ==
    ret.op = "query" =>
        /\ IdsOf(ret.results) \subseteq DOMAIN node_registry
        /\ ret.error # "KeyError"

\* The predicates of a filter configuration, all at once, for candidate c.
C8_Satisfies(c, filters) ==
    /\ c[1] \in DOMAIN node_registry
    /\ c[2] >= filters.min_score
    /\ filters.dataset_version = Unset
         \/ node_registry[c[1]].dataset_version = filters.dataset_version
    /\ filters.source_uri = Unset \/ node_registry[c[1]].source.uri = filters.source_uri
    /\ filters.source_type = Unset \/ node_registry[c[1]].source.type = filters.source_type

\* C8: apply_filters returns exactly the subsequence, in order, of the
\* candidates that are in the registry and satisfy every active predicate.
C8_FiltersExact ==
    (ret.op = "query" /\ ret.filtered) =>
        ret.after_filters = SelectSeq(ret.candidates, LAMBDA c : C8_Satisfies(c, ret.filters))

\* C8 witness: a minimum score of 90 percent kept one candidate and
\* dropped another.
C8_Witness ==
    /\ ret.op = "query" /\ ret.filtered /\ ret.filters.min_score = 90
    /\ ret.after_filters # <<>>
    /\ Len(ret.after_filters) < Len(ret.candidates)

\* The two versions the last diff compared.
DiffFrom == get_version(Manifest[1], ret.diff.version_from)[1]

DiffTo == get_version(Manifest[1], ret.diff.version_to)[1]

\* C9: compute_diff classifies the paths by the two path -> hash maps; the
\* four lists are pairwise disjoint and together hold every path of either
\* version; the versions compared are not changed.
C9_DiffClassifies ==
    [][(ret'.op = "diff" /\ ret'.error = "") =>
          /\ Range(ret'.diff.added_files) = PathsOf(DiffTo') \ PathsOf(DiffFrom')
          /\ Range(ret'.diff.removed_files) = PathsOf(DiffFrom') \ PathsOf(DiffTo')
          /\ Range(ret'.diff.modified_files) =
                {p \in PathsOf(DiffFrom') \cap PathsOf(DiffTo') :
                    HashOf(DiffFrom', p) # HashOf(DiffTo', p)}
          /\ Range(ret'.diff.unchanged_files) =
                {p \in PathsOf(DiffFrom') \cap PathsOf(DiffTo') :
                    HashOf(DiffFrom', p) = HashOf(DiffTo', p)}
          /\ NoRepeats(ret'.diff.added_files \o ret'.diff.removed_files
                       \o ret'.diff.modified_files \o ret'.diff.unchanged_files)
          /\ Manifest' = Manifest
          /\ disk_manifest' = disk_manifest]_vars

\* C9 witness: a diff found an added, a modified and an unchanged file.
C9_Witness ==
    /\ ret.op = "diff" /\ ret.error = ""
    /\ ret.diff.added_files # <<>>
    /\ ret.diff.modified_files # <<>>
    /\ ret.diff.unchanged_files # <<>>

\* C10: the diff of a version against itself has empty added, removed and
\* modified lists and every path of the version in unchanged; has_changes
\* is false and get_changed_files is empty.
C10_SelfDiff ==
    (ret.op = "diff" /\ ret.error = "" /\ ret.diff.version_from = ret.diff.version_to) =>
        /\ ret.diff.added_files = <<>>
        /\ ret.diff.removed_files = <<>>
        /\ ret.diff.modified_files = <<>>
        /\ Range(ret.diff.unchanged_files) = PathsOf(DiffFrom)
        /\ ~has_changes(ret.diff)
        /\ get_changed_files(ret.diff) = <<>>

\* C10 witness: a version that records files was diffed against itself.
C10_Witness ==
    /\ ret.op = "diff" /\ ret.error = ""
    /\ ret.diff.version_from = ret.diff.version_to
    /\ Len(ret.diff.unchanged_files) >= 2

\* C11: add_edge raises a not-found error and leaves the graph as it was
\* when an endpoint is not a node, and adds the edge otherwise; after every
\* add_node, add_edge and load_json both endpoints of every edge are nodes.
C11_AddEdgeChecked ==
    [][/\ ret'.op = "add_edge" =>
            IF ret'.ln_id \notin DOMAIN graph.nodes \/ ret'.target_id \notin DOMAIN graph.nodes
            THEN ret'.error = "ValueError" /\ graph' = graph
            ELSE /\ ret'.error = ""
                 /\ <<ret'.ln_id, ret'.target_id>> \in DOMAIN graph'.edges
                 /\ graph'.edges[<<ret'.ln_id, ret'.target_id>>] = ret'.edge_type
       /\ \A e \in DOMAIN graph'.edges :
            e[1] \in DOMAIN graph'.nodes /\ e[2] \in DOMAIN graph'.nodes]_vars

\* C11 witness: add_edge was refused on a graph that has an edge.
C11_Witness ==
    /\ ret.op = "add_edge" /\ ret.error = "ValueError"
    /\ DOMAIN graph.edges # {}

\* The nodes one hop or less from a node of S, edges taken in both directions.
OneHop(g, S) ==
    S \cup {n \in DOMAIN g.nodes :
               \E m \in S : <<m, n>> \in DOMAIN g.edges \/ <<n, m>> \in DOMAIN g.edges}

\* The nodes at distance d or less from ln_id.
RECURSIVE Within(_, _, _)
Within(g, ln_id, d) == IF d = 0 THEN {ln_id} ELSE OneHop(g, Within(g, ln_id, d - 1))

\* C12: neighbors(id, depth) returns, each once, exactly the nodes other
\* than id at distance 1..depth with edges followed both ways; nothing
\* when id is absent or depth is 0; and no less than for a smaller depth.
C12_Neighbors ==
    ret.op = "neighbors" =>
        /\ Range(ret.neighbors) =
              IF ret.ln_id \notin DOMAIN graph.nodes \/ ret.depth = 0 THEN {}
              ELSE Within(graph, ret.ln_id, ret.depth) \ {ret.ln_id}
        /\ NoRepeats(ret.neighbors)
        /\ \A d \in 0..ret.depth : neighbors(graph, ret.ln_id, d) \subseteq Range(ret.neighbors)

\* C12 witness: depth 2 reached a node that depth 1 does not reach, against
\* the direction of an edge.
C12_Witness ==
    /\ ret.op = "neighbors" /\ ret.depth = 2
    /\ Len(ret.neighbors) = 2
    /\ Cardinality(neighbors(graph, ret.ln_id, 1)) = 1
    /\ \E n \in Range(ret.neighbors) : <<n, ret.ln_id>> \in DOMAIN graph.edges

\* C13: export_json followed by load_json against the registry that holds
\* the graph's records gives back the same node ids and the same edges
\* (source, target, edge type).
C13_RoundTrip ==
    [][(ret'.op = "load_json" /\ ret'.ids = DOMAIN node_registry) =>
          /\ DOMAIN graph'.nodes = DOMAIN graph.nodes
          /\ graph'.edges = graph.edges]_vars

\* C13 witness: a graph with two edges went through the round trip.
C13_Witness ==
    /\ ret.op = "load_json" /\ ret.ids = DOMAIN node_registry
    /\ Cardinality(DOMAIN graph.edges) = 2
    /\ Cardinality(DOMAIN graph.nodes) >= 2

\* C14: add_node(record) makes record.id a node whose get_node is the
\* record; the node count grows by one for a new id and not at all for an
\* id that is a node already; edges and the other nodes stay as they are.
C14_AddNode ==
    [][ret'.op = "add_node" =>
          /\ get_node(graph', ret'.ln_id) = ret'.node
          /\ graph_len(graph') = Cardinality(DOMAIN graph.nodes \cup {ret'.ln_id})
          /\ graph'.edges = graph.edges
          /\ \A id \in DOMAIN graph.nodes \ {ret'.ln_id} :
                get_node(graph', id) = get_node(graph, id)]_vars

\* C14 witness: the second record of an id was added over the first while
\* the node had an edge.
C14_Witness ==
    /\ ret.op = "add_node" /\ ret.node[1].content = <<"b">>
    /\ \E e \in DOMAIN graph.edges : e[1] = ret.ln_id \/ e[2] = ret.ln_id

\* The records of input[1..n] that are the first with their content_hash,
\* each with the deduplicator's name appended to its transform chain.
RECURSIVE Survivors(_, _)
Survivors(input, n) ==
    IF n = 0 THEN <<>>
    ELSE Survivors(input, n - 1)
         \o (IF \A j \in 1..(n - 1) : input[j].content_hash # input[n].content_hash
             THEN <<[input[n] EXCEPT !.transform_chain = Append(@, "deduplicate")]>>
             ELSE <<>>)

\* C15: since construction or the last reset(), the records a deduplicator
\* has emitted are exactly the first record of each content_hash passed to
\* it, in order, unchanged but for the appended stage name; a call emits
\* its record if and only if no earlier record had its hash, and reset()
\* forgets every hash, so that the next record passes whatever came before.
C15_FirstOfEachHash ==
    /\ deduper.output = Survivors(deduper.input, Len(deduper.input))
    /\ ret.op = "dedupe" =>
          /\ deduper.input # <<>>
          /\ ret.node = <<deduper.input[Len(deduper.input)]>>
          /\ (ret.emitted # <<>>) <=>
                \A j \in 1..(Len(deduper.input) - 1) :
                    deduper.input[j].content_hash # ret.node[1].content_hash
    /\ ret.op = "reset" => deduper.seen_hashes = {} /\ deduper.input = <<>>

\* A record with an already seen hash was dropped after another had passed.
C15_Witness ==
    /\ ret.op = "dedupe"
    /\ ret.emitted = <<>>
    /\ Len(deduper.input) = 3
    /\ Len(deduper.output) = 2

\* Every position of the content lies in the window of some chunk, the
\* i-th chunk being the content from position (i - 1) * (chunk_size - overlap).
Covers(content, chunks, chunk_size, overlap) ==
    \A p \in 1..Len(content) :
        \E i \in DOMAIN chunks :
            /\ p > (i - 1) * (chunk_size - overlap)
            /\ p <= (i - 1) * (chunk_size - overlap) + Len(chunks[i])
            /\ chunks[i][p - (i - 1) * (chunk_size - overlap)] = content[p]

\* C16 as stated: with chunk_overlap < chunk_size, every character position
\* of the content lies in at least one emitted chunk.
C16_CoversWhenBelow ==
    ret.op = "chunk" /\ ret.error = "" /\ ret.overlap < ret.chunk_size =>
        Covers(ret.content, ret.chunks, ret.chunk_size, ret.overlap)

\* C16: with 0 <= chunk_overlap < chunk_size, the chunker returns and every
\* character position of the content lies in at least one emitted chunk.
C16_CoversWhenOverlapInRange ==
    ret.op = "chunk" /\ 0 <= ret.overlap /\ ret.overlap < ret.chunk_size =>
        /\ ret.error = ""
        /\ Covers(ret.content, ret.chunks, ret.chunk_size, ret.overlap)

\* A content was cut into three or more overlapping chunks.
C16_Witness ==
    /\ ret.op = "chunk"
    /\ ret.error = ""
    /\ ret.overlap = 1
    /\ ret.chunk_size = 2
    /\ Len(ret.chunks) >= 3

\* C17: a chunker constructed with chunk_size <= 0, or with an overlap that
\* is not below chunk_size, is refused with an error.
C17_MalformedRejected ==
    ret.op = "SimpleChunker" /\ (ret.chunk_size <= 0 \/ ret.overlap >= ret.chunk_size) =>
        ret.error # ""

\* The number a version string stands for, in tenths, <<>> when it is not
\* a number.
VersionNumber(v) == ParseFloat(ReplaceV(v))

\* The largest number among the versions of a lineage whose versions all
\* parse.
MaxLineageNumber(lineage) ==
    CHOOSE n \in {VersionNumber(lineage[i].dataset_version)[1] : i \in DOMAIN lineage} :
        \A i \in DOMAIN lineage : VersionNumber(lineage[i].dataset_version)[1] <= n

\* A current version is given, no lineage entry carries it, and it and all
\* the lineage versions parse as numbers.
Comparable(lineage, current_version) ==
    /\ current_version # <<>>
    /\ \A i \in DOMAIN lineage : lineage[i].dataset_version # current_version[1]
    /\ VersionNumber(current_version[1]) # <<>>
    /\ \A i \in DOMAIN lineage : VersionNumber(lineage[i].dataset_version) # <<>>

\* C19: check_staleness returns warning for an empty lineage; when a current
\* version is given, no entry carries it and all versions are numbers, fail
\* if current exceeds the largest lineage version by more than 1.0, warning
\* if it exceeds it by a positive amount up to 1.0; pass in every other case.
C19_Staleness ==
    ret.op = "check_staleness" =>
        ret.status =
            IF ret.lineage = <<>> THEN "warning"
            ELSE IF Comparable(ret.lineage, ret.current_version)
            THEN IF VersionNumber(ret.current_version[1])[1]
                        - MaxLineageNumber(ret.lineage) > 10 THEN "fail"
                 ELSE IF VersionNumber(ret.current_version[1])[1]
                            - MaxLineageNumber(ret.lineage) > 0 THEN "warning"
                 ELSE "pass"
            ELSE "pass"

\* C20: version_consistency is unknown if and only if the lineage is empty,
\* single_version if and only if it is non-empty and all entries carry the
\* same dataset_version, and mixed_versions otherwise.
C20_VersionConsistency ==
    ret.op = "check_version_consistency" =>
        /\ ret.status \in {"unknown", "single_version", "mixed_versions"}
        /\ ret.status = "unknown" <=> ret.lineage = <<>>
        /\ ret.status = "single_version" <=>
              /\ ret.lineage # <<>>
              /\ \A i, j \in DOMAIN ret.lineage :
                    ret.lineage[i].dataset_version = ret.lineage[j].dataset_version

\* Two entries of one version were found to be of a single version.
C20_Witness ==
    /\ ret.op = "check_version_consistency"
    /\ Len(ret.lineage) = 2
    /\ ret.status = "single_version"

\* C18: an engine constructed with an unknown embedding-backend or
\* store-backend name is refused with an error at construction, and no
\* build, update or query fails later over the backend names.
C18_UnknownBackendRejected ==
    /\ ret.op = "new" /\ (config.embed_backend \notin {"local", "openai"}
                          \/ config.store_backend # "faiss") => ret.error # ""
    /\ ret.op \in {"build", "update", "query"} => ret.error # "ValueError"

\* The stage names of a lineage, entry after entry, chain in order.
RECURSIVE AllStages(_)
AllStages(lineage) ==
    IF lineage = <<>> THEN <<>>
    ELSE Head(lineage).transform_chain \o AllStages(Tail(lineage))

\* Where a risk message is first met in a sequence of stage names.
FirstMet(msg, stages) ==
    CHOOSE k \in DOMAIN stages :
        /\ stages[k] \in DOMAIN risky_transforms /\ risky_transforms[stages[k]] = msg
        /\ \A j \in 1..(k - 1) :
              ~(stages[j] \in DOMAIN risky_transforms /\ risky_transforms[stages[j]] = msg)

\* C21: transform_risk_flags holds the message of every risky stage that
\* occurs in a lineage entry's transform chain, each once, in the order the
\* stages are first met, and nothing else.
C21_RiskFlags ==
    ret.op = "check_transform_risks" =>
        /\ Range(ret.risk_flags) =
              {risky_transforms[t] :
                  t \in Range(AllStages(ret.lineage)) \cap DOMAIN risky_transforms}
        /\ NoRepeats(ret.risk_flags)
        /\ \A i, j \in DOMAIN ret.risk_flags :
              i < j => FirstMet(ret.risk_flags[i], AllStages(ret.lineage))
                          < FirstMet(ret.risk_flags[j], AllStages(ret.lineage))

\* A risky stage met in both entries was reported once, after another.
C21_Witness ==
    /\ ret.op = "check_transform_risks"
    /\ Len(ret.lineage) = 2
    /\ InSeq("ocr", ret.lineage[1].transform_chain)
    /\ InSeq("ocr", ret.lineage[2].transform_chain)
    /\ Len(ret.risk_flags) = 3

LastWithTag(versions, tag) ==
    IF \E i \in DOMAIN versions : versions[i].version = tag
    THEN <<versions[CHOOSE i \in DOMAIN versions :
                        /\ versions[i].version = tag
                        /\ \A j \in DOMAIN versions : versions[j].version = tag => j <= i]>>
    ELSE <<>>

\* C28: get_version(tag) returns the snapshot made by the most recent
\* create_version(tag, ...), also when the tag was used more than once, so
\* that get_version(current_version) is the last appended version.
C28_LatestSnapshot ==
    ret.op = "get_version" /\ vs_manifest # <<>> =>
        /\ ret.version_obj = LastWithTag(vs_manifest[1].versions, ret.version)
        /\ ret.version = vs_manifest[1].current_version =>
              ret.version_obj = <<vs_manifest[1].versions[Len(vs_manifest[1].versions)]>>

\* C23: a build or update over a batch with a file whose read fails
\* completes without raising, and after a build the records of every
\* other file are in the registry.
C23_ReadFailureSkipped ==
    ret.op \in {"build", "update"} /\ (\E p \in DOMAIN files : files[p] = Unreadable) =>
        /\ ret.error = ""
        /\ ret.op = "build" =>
              \A p \in DOMAIN files :
                  files[p] # Unreadable =>
                      \E id \in DOMAIN node_registry : node_registry[id].source.uri = p

\* The graph queries see when they run one after another: the snapshot on
\* disk reloaded over the registry.
SettledGraph == IF disk_graph # <<>> THEN load_json(disk_graph[1], node_registry) ELSE graph

\* C24: with no build or update in flight, whatever the interleaving of
\* the queries of several threads on one engine, each query returns
\* results it could have returned had the queries run one after another.
C24_QueriesAsIfSerial ==
    \A t \in Threads :
        threads[t].pc = "done" /\ threads[t].error = "" =>
            threads[t].results \in
                RetrieveFrom(StoreSearch(InitializeStore, Embed(threads[t].question),
                                         threads[t].k * 2),
                             SettledGraph, node_registry, threads[t].k, FALSE, NoFilters,
                             config.graph_depth)


\* Taken as one step, a call of query leaves the registry, the nodes and
\* edges of the graph, the vector index once it is initialised and the
\* persisted files as they were.
QueryReadOnly ==
    [][ret'.op = "query" =>
            /\ node_registry' = node_registry
            /\ graph' = graph
            /\ (store # <<>> => store' = store)
            /\ <<files, disk_manifest, disk_graph, disk_index>>' =
               <<files, disk_manifest, disk_graph, disk_index>>]_vars


\* The record's hash is the hash of the content it holds.
OwnHash(ln) == ln.content_hash = compute_content_hash(ln.content)

AllOwnHash(lns) == \A i \in DOMAIN lns : OwnHash(lns[i])

\* The stage settings of the pipeline: both chunkers, both normalisations.
StageConfigs ==
    { Config(strategy, 6, 2, TRUE, TRUE, aggressive, 0) :
        strategy \in {"simple", "semantic"}, aggressive \in BOOLEAN }

\* The records ingestion emits for the files as they are now.
IngestedNow == IngestAll(CurrentFS, ScanFiles(CurrentFS), "v1.0", 1)

\* The records after normalisation and after deduplication carry their
\* own hashes.
NormalizedOwnHash(normalized) ==
    AllOwnHash(normalized) /\ AllOwnHash(FlatMapDedupe(normalized, {}).out)

\* The records after chunking and after the later stages carry their own
\* hashes.
ChunkedOwnHash(chunked, cfg) ==
    AllOwnHash(chunked) /\ NormalizedOwnHash(FlatMapNormalize(chunked, cfg))

\* The records of ingestion and of every stage carry their own hashes.
StagesOwnHash(ingested) ==
    /\ AllOwnHash(ingested)
    /\ \A cfg \in StageConfigs : ChunkedOwnHash(FlatMapChunk(ingested, cfg), cfg)

\* C25: every record emitted by ingestion, by the chunkers, by the
\* normaliser and by the deduplicator, and so every record of the registry
\* after any sequence of builds and updates, carries the hash of its own
\* content.
C25_ContentHash ==
    /\ \A id \in DOMAIN node_registry : OwnHash(node_registry[id])
    /\ StagesOwnHash(IngestedNow)

\* An update has added records of an edited file to a registry a build filled.
C25_Witness ==
    /\ ret.op = "update"
    /\ ret.error = ""
    /\ edits > 0
    /\ \E a, b \in DOMAIN node_registry :
            node_registry[a].dataset_version # node_registry[b].dataset_version


\* C26: when a filter configuration is passed, every entry query returns
\* satisfies all active filter predicates, the entries the graph expansion
\* adds included.
C26_ResultsPassFilters ==
    ret.op = "query" /\ ret.error = "" /\ ret.filtered =>
        \A i \in DOMAIN ret.results :
            FilterKeeps(ret.results[i][1], ret.results[i][2], node_registry, ret.filters)


\* The sentences of each chunk the call emitted.
EmittedGroups ==
    SemanticGroups(Sentences(ret.content), ret.chunk_size, ret.overlap, <<>>, <<>>, 0)

\* The chunks emitted are the sentence groups joined by single spaces.
GroupsAreChunks ==
    ret.chunks = ChunksOrContent([i \in DOMAIN EmittedGroups |-> JoinSpace(EmittedGroups[i])],
                                 ret.content)

\* C27: with chunk_overlap < chunk_size, every chunk the semantic chunker
\* emits that holds more than one sentence has a summed sentence length of
\* at most chunk_size.
C27_ChunksWithinSize ==
    ret.op = "semantic_chunk" /\ ret.overlap < ret.chunk_size =>
        /\ GroupsAreChunks
        /\ \A i \in DOMAIN EmittedGroups :
              Len(EmittedGroups[i]) > 1 => SumLen(EmittedGroups[i]) <= ret.chunk_size


\* The version store's current version, as check_staleness takes it.
StoreCurrentVersion ==
    VersionChars(get_current_version(load_manifest(vs_manifest, disk_manifest)))

\* C29: whatever the interleaving of build, update and audit on an engine,
\* audit assesses staleness against the current version the version store
\* has when audit is called.
C29_AuditAgainstCurrent ==
    ret.op = "audit" =>
        /\ ret.current_version = StoreCurrentVersion
        /\ ret.status = check_staleness(ret.lineage, StoreCurrentVersion)


\* Chunk a is the chunk just before chunk b of the same parent record.
ConsecutiveChunks(a, b) ==
    /\ Len(a) = 2 /\ Len(b) = 2
    /\ a[1] = b[1]
    /\ b[2] = a[2] + 1

\* C30: after build and after update, every two consecutive chunks of the
\* same parent record that are both in the registry are linked by an
\* adjacent edge from the earlier to the later.
C30_ConsecutiveChunksLinked ==
    ret.op \in {"build", "update"} /\ ret.error = "" =>
        \A a, b \in DOMAIN node_registry :
            ConsecutiveChunks(a, b) =>
                /\ <<a, b>> \in DOMAIN graph.edges
                /\ graph.edges[<<a, b>>] = "adjacent"

====
